---- MODULE Spec2Model ----
(***************************************************************************)
(* Model of mm_log::custom_rotating_file_sink (include/custom_sink.hpp):   *)
(* a size-rotated, timestamp-named log file with a "latest" symlink and a  *)
(* total-size retention cleanup, written to by several logging threads.    *)
(*                                                                         *)
(* File names are sequences of characters, so that the prefix / substring  *)
(* tests of the cleanup are the tests the code makes.  File contents are   *)
(* sequences of bytes, each byte carrying the id of the message it belongs *)
(* to (0 for bytes written by an earlier run of the program).              *)
(* Time is a tick counter; TicksPerSec ticks make one second.  File names  *)
(* carry the second, modification times carry the tick.                    *)
(***************************************************************************)
EXTENDS Integers, Sequences, FiniteSets, TLC

\* ------------------------------------------------------------------ bounds
NumThreads == 2
MaxMsgs == 3
MaxTick == 4
MaxFaults == 1
MaxLogCalls == 1
MaxShutdowns == 1

\* one second of get_timestamp_str / rotation_check_interval_, in ticks
TicksPerSec == 2

Threads == 1..NumThreads
SinkIds == {1, 2}
MsgSizes == {1, 2}
MaxSizes == {1, 3}
Budgets == {0, 3, 100}
OldSizes == {2}

NoThread == 0
NoName == << >>

VARIABLES
    now,                  \* the clock, in ticks
    fs,                   \* regular files of the log directory: name -> [content, mtime]
    links,                \* symbolic links of the log directory: name -> target name
    built,                \* per sink: "absent", "unbuilt", "ok"
    log_type_, base_filename_, max_size_, max_total_size_,
    file_helper_,         \* per sink: [fd, filename]
    current_size_,
    last_rotation_check_,
    rotation_mutex_,      \* per sink: the thread holding it, or NoThread
    mutex_,               \* per sink: base_sink<Mutex>::mutex_, its holder
    cleanup_mutex,        \* the static mutex of cleanup_old_files, its holder
    tsink,                \* the sink each thread logs to
    pc,                   \* per thread: its position in base_sink::log / sink_it_
    cur,                  \* per thread: the id of the message it is sinking
    log_files,            \* per thread: the sorted vector of cleanup_old_files
    calls,                \* history: one record per sink_it_ call, by message id
    opens,                \* history: per sink, the files it opened, in order
    wrote,                \* history: message ids in the order of their writes
    deleted,              \* history: the files cleanup has deleted
    failed,               \* history: per sink, the steps that failed ("open", "alias")
    init_flag_,           \* Logger: the once_flag: "unset", "active", "done"
    initialized_,         \* Logger: the atomic flag
    enable_debug_, enable_console_, enable_file_,
    registry,             \* spdlog's registry: the logger named "main_logger", or NoLogger
    queue,                \* the thread pool's queue of messages posted by the async logger
    lpc,                  \* per thread: its position in Logger::Initialize
    larg,                 \* per thread: whether its Initialize call came after a Shutdown
    streams,              \* history: the messages each sink of each prefix received
    returns,              \* history: the values Initialize returned, before and after a Shutdown
    logged,               \* history: one record per Logger::Log call
    body_runs,            \* history: how often the body of call_once was entered
    shutdowns             \* history: the number of Shutdown calls

cfgvars == << log_type_, base_filename_, max_size_, max_total_size_, tsink >>
sinkvars == << built, file_helper_, current_size_, last_rotation_check_ >>
lockvars == << rotation_mutex_, mutex_, cleanup_mutex >>
histvars == << calls, opens, wrote, deleted, failed >>
loggervars == << init_flag_, initialized_, enable_debug_, enable_console_, enable_file_,
                 registry, queue, lpc, larg, streams, returns, logged, body_runs,
                 shutdowns >>
vars == << now, fs, links, cfgvars, sinkvars, lockvars, pc, cur, log_files, histvars,
          loggervars >>

\* ------------------------------------------------------------ strings
Digit == << "0", "1", "2", "3", "4", "5", "6", "7", "8", "9" >>

IsPrefix(p, str) == Len(p) <= Len(str) /\ SubSeq(str, 1, Len(p)) = p

\* std::string::find(needle) != npos
Contains(str, needle) ==
    \E i \in 0..(Len(str) - Len(needle)) : SubSeq(str, i + 1, i + Len(needle)) = needle

\* get_timestamp_str: the wall clock at second resolution, fixed width
get_timestamp_str(tick) == << Digit[(tick \div TicksPerSec) + 1] >>

\* build_filename: type.timestamp.basename
build_filename(s, timestamp) ==
    log_type_[s] \o << "." >> \o timestamp \o << "." >> \o base_filename_[s]

\* create_new_file: the name for the current second
create_new_file(s) == build_filename(s, get_timestamp_str(now))

\* update_symlink's symlink_name: basename.type
symlink_name(s) == base_filename_[s] \o << "." >> \o log_type_[s]

\* ------------------------------------------------------------ file system
Put(f, name, val) == [n \in (DOMAIN f) \cup {name} |-> IF n = name THEN val ELSE f[n]]
Del(f, name) == [n \in (DOMAIN f) \ {name} |-> f[n]]

Bytes(id, n) == [i \in 1..n |-> id]
Range(f) == {f[i] : i \in DOMAIN f}
FileSize(fsys, name) == IF name \in DOMAIN fsys THEN Len(fsys[name].content) ELSE 0

\* mutant: the files are opened with truncate set
open_truncate_set == TRUE

\* the truncate argument of file_helper_.open(filename, false)
open_truncate == FALSE

\* spdlog file_helper::open: append mode; creates the file when it is missing,
\* empties it first only when truncate is set
file_helper_open(fsys, name, truncate, tick) ==
    IF name \in DOMAIN fsys /\ ~truncate
      THEN fsys
      ELSE Put(fsys, name, [content |-> << >>, mtime |-> tick])

\* mutant: a write that stops one byte short of a longer message
file_helper_write_short(fsys, name, id, n, tick) ==
    IF name \in DOMAIN fsys
      THEN Put(fsys, name, [content |-> fsys[name].content \o Bytes(id, IF n > 1 THEN n - 1 ELSE n),
                            mtime |-> tick])
      ELSE fsys

\* mutant: a write that replaces the content of the file
file_helper_write_over(fsys, name, id, n, tick) ==
    IF name \in DOMAIN fsys
      THEN Put(fsys, name, [content |-> Bytes(id, n), mtime |-> tick])
      ELSE fsys

\* spdlog file_helper::write: appends the whole buffer to the open file
file_helper_write(fsys, name, id, n, tick) ==
    IF name \in DOMAIN fsys
      THEN Put(fsys, name, [content |-> fsys[name].content \o Bytes(id, n), mtime |-> tick])
      ELSE fsys

\* std::filesystem::exists follows symbolic links
path_exists(lnk, fsys, name) == name \in DOMAIN lnk /\ lnk[name] \in DOMAIN fsys

\* mutant: update_symlink without the `ln -sf` fallback, so that a link that
\* exists() did not see stays as it is
update_symlink_no_fallback(lnk, fsys, s, target_file) ==
    LET name == symlink_name(s)
        removed == IF path_exists(lnk, fsys, name) THEN Del(lnk, name) ELSE lnk
    IN  IF name \in DOMAIN removed THEN removed ELSE Put(removed, name, target_file)

\* update_symlink: remove the link if exists() sees it, create it, and on an
\* exception (the link is still there: a dangling link is not seen by exists)
\* fall back to `ln -sf`, which replaces it
update_symlink(lnk, fsys, s, target_file) ==
    LET name == symlink_name(s)
        removed == IF path_exists(lnk, fsys, name) THEN Del(lnk, name) ELSE lnk
    IN  Put(removed, name, target_file)

\* ------------------------------------------------------------ cleanup
\* mutant: the file name test without the log_type prefix
Matches_any_type(s, filename) == Contains(filename, base_filename_[s])

\* the file name test of cleanup_old_files
Matches(s, filename) ==
    /\ IsPrefix(log_type_[s] \o << "." >>, filename)
    /\ Contains(filename, base_filename_[s])

Candidates(s, fsys) == {n \in DOMAIN fsys : Matches(s, n)}

\* std::sort by last_write_time: every order of the files that has no file
\* before an older one (files of equal time may come in any order)
SortedByMtime(S, fsys) ==
    {o \in [1..Cardinality(S) -> S] :
        /\ \A i, j \in 1..Cardinality(S) : i # j => o[i] # o[j]
        /\ \A i, j \in 1..Cardinality(S) : i < j => ~(fsys[o[j]].mtime < fsys[o[i]].mtime)}

RECURSIVE SumSizes(_, _)
SumSizes(S, fsys) ==
    IF S = {} THEN 0
    ELSE LET n == CHOOSE x \in S : TRUE
         IN  FileSize(fsys, n) + SumSizes(S \ {n}, fsys)

\* mutant: the deletion loop without the test against curr_path
RECURSIVE delete_loop_unguarded(_, _, _, _, _, _, _)
delete_loop_unguarded(files, i, total_size, fsys, curr_path, max_total, locked) ==
    IF i >= Len(files) \/ ~(total_size > max_total)
      THEN fsys
      ELSE IF files[i] \notin locked
             THEN delete_loop_unguarded(files, i + 1, total_size - FileSize(fsys, files[i]),
                                        Del(fsys, files[i]), curr_path, max_total, locked)
             ELSE delete_loop_unguarded(files, i + 1, total_size, fsys, curr_path,
                                        max_total, locked)

\* mutant: the deletion loop that never subtracts from the running total
RECURSIVE delete_loop_greedy(_, _, _, _, _, _, _)
delete_loop_greedy(files, i, total_size, fsys, curr_path, max_total, locked) ==
    IF i >= Len(files) \/ ~(total_size > max_total)
      THEN fsys
      ELSE IF files[i] # curr_path /\ files[i] \notin locked
             THEN delete_loop_greedy(files, i + 1, total_size,
                                     Del(fsys, files[i]), curr_path, max_total, locked)
             ELSE delete_loop_greedy(files, i + 1, total_size, fsys, curr_path,
                                     max_total, locked)

\* mutant: the deletion loop that ends at the first remove() that throws
RECURSIVE delete_loop_stops(_, _, _, _, _, _, _)
delete_loop_stops(files, i, total_size, fsys, curr_path, max_total, locked) ==
    IF i >= Len(files) \/ ~(total_size > max_total)
      THEN fsys
      ELSE IF files[i] = curr_path
             THEN delete_loop_stops(files, i + 1, total_size, fsys, curr_path,
                                    max_total, locked)
             ELSE IF files[i] \in locked
                    THEN fsys
                    ELSE delete_loop_stops(files, i + 1,
                                           total_size - FileSize(fsys, files[i]),
                                           Del(fsys, files[i]), curr_path, max_total,
                                           locked)

\* the deletion loop: oldest first, never the last entry, never curr_path;
\* a remove() that throws (the files in locked) is caught and the loop goes on
RECURSIVE delete_loop(_, _, _, _, _, _, _)
delete_loop(files, i, total_size, fsys, curr_path, max_total, locked) ==
    IF i >= Len(files) \/ ~(total_size > max_total)
      THEN fsys
      ELSE IF files[i] # curr_path /\ files[i] \notin locked
             THEN delete_loop(files, i + 1, total_size - FileSize(fsys, files[i]),
                              Del(fsys, files[i]), curr_path, max_total, locked)
             ELSE delete_loop(files, i + 1, total_size, fsys, curr_path, max_total, locked)

\* mutant: a cleanup that removes every listed file when over the budget
cleanup_sorted_purge(files, fsys, curr_path, max_total, locked) ==
    IF SumSizes(Range(files), fsys) > max_total
      THEN [n \in DOMAIN fsys \ Range(files) |-> fsys[n]]
      ELSE fsys

\* cleanup_old_files after the sort
cleanup_sorted(files, fsys, curr_path, max_total, locked) ==
    IF Len(files) <= 1
      THEN fsys
      ELSE delete_loop(files, 1, SumSizes({files[i] : i \in 1..Len(files)}, fsys),
                       fsys, curr_path, max_total, locked)

\* ------------------------------------------------------------ rotation policy
should_check_rotation(s) == now - last_rotation_check_[s] >= TicksPerSec

file_helper_size(s) == FileSize(fs, file_helper_[s].filename)

\* ------------------------------------------------------------ Logger, initial state
\* LogLevel and the spdlog levels the Logger maps them to
DEBUG == 0
LINFO == 1
WARN == 2
ERROR == 3
LogLevels == {DEBUG, LINFO, WARN, ERROR}

\* the three file sinks Initialize creates, by log_type
StreamTags == {"INFO", "WARN", "ERROR"}

\* the log_file_prefix values of the Initialize calls
Prefixes == {"p", "q"}

NoLogger == [prefix |-> "", level |-> DEBUG, file |-> FALSE]
NoArg == [after_shutdown |-> FALSE, log |-> 0]

\* Logger(): initialized_(false), enable_debug_(true), enable_console_(true),
\* enable_file_(true); nothing registered, nothing queued
LoggerInit ==
    /\ init_flag_ = "unset"
    /\ initialized_ = FALSE
    /\ enable_debug_ = TRUE
    /\ enable_console_ = TRUE
    /\ enable_file_ = TRUE
    /\ registry = NoLogger
    /\ queue = << >>
    /\ lpc = [t \in Threads |-> "idle"]
    /\ larg = [t \in Threads |-> NoArg]
    /\ streams = [x \in Prefixes \X StreamTags |-> {}]
    /\ returns = {}
    /\ logged = << >>
    /\ body_runs = 0
    /\ shutdowns = 0

\* ------------------------------------------------------------ initial state
INFO == << "I" >>
APP == << "a" >>
OldName == INFO \o << "." >> \o << "0" >> \o << "." >> \o APP
AliasName == APP \o << "." >> \o INFO

OldFile(sz) == [content |-> Bytes(0, sz), mtime |-> 0]

Init ==
    /\ now = TicksPerSec
    /\ \E sz \in OldSizes :
         fs \in { << >>, [n \in {OldName} |-> OldFile(sz)] }
    /\ links \in { << >>, [n \in {AliasName} |-> OldName] }
    /\ built = [s \in SinkIds |-> IF s = 1 THEN "unbuilt" ELSE "absent"]
    /\ log_type_ = [s \in SinkIds |-> INFO]
    /\ base_filename_ = [s \in SinkIds |-> APP]
    /\ \E m \in MaxSizes : max_size_ = [s \in SinkIds |-> m]
    /\ \E b \in Budgets : max_total_size_ = [s \in SinkIds |-> b]
    /\ file_helper_ = [s \in SinkIds |-> [fd |-> FALSE, filename |-> NoName]]
    /\ current_size_ = [s \in SinkIds |-> 0]
    /\ last_rotation_check_ = [s \in SinkIds |-> 0]
    /\ rotation_mutex_ = [s \in SinkIds |-> NoThread]
    /\ mutex_ = [s \in SinkIds |-> NoThread]
    /\ cleanup_mutex = NoThread
    /\ tsink = [t \in Threads |-> 1]
    /\ pc = [t \in Threads |-> "idle"]
    /\ cur = [t \in Threads |-> 0]
    /\ log_files = [t \in Threads |-> << >>]
    /\ calls = << >>
    /\ opens = [s \in SinkIds |-> << >>]
    /\ wrote = << >>
    /\ deleted = {}
    /\ failed = [s \in SinkIds |-> {}]
    /\ LoggerInit

\* ------------------------------------------------------------ constructor
\* custom_rotating_file_sink(...): open the file of the current second,
\* take its size, point the link at it, clean up (cleanup_old_files takes
\* cleanup_mutex, so the constructor ends only when no other cleanup runs)
Construct(s) ==
    /\ built[s] = "unbuilt"
    /\ cleanup_mutex = NoThread
    /\ LET current_filename == create_new_file(s)
           fs1 == file_helper_open(fs, current_filename, open_truncate, now)
       IN  /\ file_helper_' = [file_helper_ EXCEPT ![s] = [fd |-> TRUE, filename |-> current_filename]]
           /\ current_size_' = [current_size_ EXCEPT ![s] = FileSize(fs1, current_filename)]
           /\ links' = update_symlink(links, fs1, s, current_filename)
           /\ \E order \in SortedByMtime(Candidates(s, fs1), fs1) :
                fs' = cleanup_sorted(order, fs1, current_filename, max_total_size_[s], {})
           /\ opens' = [opens EXCEPT ![s] = Append(@, [name |-> current_filename,
                                                        created |-> current_filename \notin DOMAIN fs,
                                                        by |-> 0])]
    /\ last_rotation_check_' = [last_rotation_check_ EXCEPT ![s] = now]
    /\ built' = [built EXCEPT ![s] = "ok"]
    /\ deleted' = deleted \cup (DOMAIN fs \ DOMAIN fs')
    /\ UNCHANGED << now, cfgvars, loggervars, lockvars, pc, cur, log_files, calls, wrote, failed >>

\* ------------------------------------------------------------ sink_it_
\* base_sink<Mutex>::log: take mutex_, then sink_it_ formats the message
LogOf(t, sizes) ==
    /\ pc[t] = "idle"
    /\ built[tsink[t]] = "ok"
    /\ mutex_[tsink[t]] = NoThread
    /\ Len(calls) < MaxMsgs
    /\ \E n \in sizes :
         calls' = Append(calls, [size |-> n, sink |-> tsink[t],
                                 start_file |-> file_helper_[tsink[t]].filename,
                                 start_size |-> file_helper_size(tsink[t]),
                                 start_files |-> DOMAIN fs,
                                 rotated |-> FALSE, dest |-> NoName, epoch |-> 0,
                                 state |-> "sinking", fault |-> FALSE,
                                 error |-> "none", cleaned |-> FALSE, locked |-> {},
                                 path |-> "none"])
    /\ cur' = [cur EXCEPT ![t] = Len(calls) + 1]
    /\ mutex_' = [mutex_ EXCEPT ![tsink[t]] = t]
    /\ pc' = [pc EXCEPT ![t] = "check"]
    /\ UNCHANGED << now, fs, links, cfgvars, loggervars, sinkvars, rotation_mutex_, cleanup_mutex,
                    log_files, opens, wrote, deleted, failed >>

\* a call of log() with a message of any of the sizes
Log(t) == LogOf(t, MsgSizes)

\* if (current_size_ + msg_size > max_size_ || should_check_rotation()):
\* the slow path by the counter ("size"), by the elapsed interval alone
\* ("interval"), or the fast path
Check(t) ==
    /\ pc[t] = "check"
    /\ LET s == tsink[t]
           over == current_size_[s] + calls[cur[t]].size > max_size_[s]
       IN  /\ pc' = [pc EXCEPT ![t] = IF over \/ should_check_rotation(s) THEN "lock" ELSE "write"]
           /\ calls' = [calls EXCEPT ![cur[t]].path =
                          IF over THEN "size"
                          ELSE IF should_check_rotation(s) THEN "interval" ELSE "fast"]
    /\ UNCHANGED << now, fs, links, cfgvars, loggervars, sinkvars, lockvars, cur, log_files,
                    opens, wrote, deleted, failed >>

\* mutant: the slow path entered without taking rotation_mutex_
Lock_not_taken(t) ==
    /\ pc[t] = "lock"
    /\ pc' = [pc EXCEPT ![t] = "recheck"]
    /\ UNCHANGED << now, fs, links, cfgvars, loggervars, sinkvars, lockvars, cur, log_files, histvars >>

\* std::lock_guard<Mutex> lock(rotation_mutex_)
Lock(t) ==
    /\ pc[t] = "lock"
    /\ rotation_mutex_[tsink[t]] = NoThread
    /\ rotation_mutex_' = [rotation_mutex_ EXCEPT ![tsink[t]] = t]
    /\ pc' = [pc EXCEPT ![t] = "recheck"]
    /\ UNCHANGED << now, fs, links, cfgvars, loggervars, sinkvars, mutex_, cleanup_mutex, cur,
                    log_files, histvars >>

\* mutant: the slow path rotates without looking at the file's size
Recheck_always_rotates(t) ==
    /\ pc[t] = "recheck"
    /\ file_helper_[tsink[t]].fd
    /\ pc' = [pc EXCEPT ![t] = "close"]
    /\ UNCHANGED << now, fs, links, cfgvars, loggervars, sinkvars, lockvars, cur, log_files,
                    histvars >>

\* mutant: the slow path does not rotate away from an empty file
Recheck_keeps_empty(t) ==
    /\ pc[t] = "recheck"
    /\ file_helper_[tsink[t]].fd
    /\ LET s == tsink[t] IN
       IF file_helper_size(s) > 0 /\ file_helper_size(s) + calls[cur[t]].size > max_size_[s]
         THEN /\ pc' = [pc EXCEPT ![t] = "close"]
              /\ UNCHANGED current_size_
         ELSE /\ pc' = [pc EXCEPT ![t] = "stamp"]
              /\ current_size_' = [current_size_ EXCEPT ![s] = file_helper_size(s)]
    /\ UNCHANGED << now, fs, links, cfgvars, loggervars, built, file_helper_, last_rotation_check_,
                    lockvars, cur, log_files, histvars >>

\* if (file_helper_.size() + msg_size > max_size_) ... else current_size_ = size
Recheck(t) ==
    /\ pc[t] = "recheck"
    /\ file_helper_[tsink[t]].fd
    /\ LET s == tsink[t] IN
       IF file_helper_size(s) + calls[cur[t]].size > max_size_[s]
         THEN /\ pc' = [pc EXCEPT ![t] = "close"]
              /\ UNCHANGED current_size_
         ELSE /\ pc' = [pc EXCEPT ![t] = "stamp"]
              /\ current_size_' = [current_size_ EXCEPT ![s] = file_helper_size(s)]
    /\ UNCHANGED << now, fs, links, cfgvars, loggervars, built, file_helper_, last_rotation_check_,
                    lockvars, cur, log_files, histvars >>

\* file_helper_.close()
Close(t) ==
    /\ pc[t] = "close"
    /\ file_helper_' = [file_helper_ EXCEPT ![tsink[t]].fd = FALSE]
    /\ pc' = [pc EXCEPT ![t] = "open"]
    /\ UNCHANGED << now, fs, links, cfgvars, loggervars, built, current_size_, last_rotation_check_,
                    lockvars, cur, log_files, histvars >>

\* mutant: the rotation creates the new file but the sink goes on with the
\* handle of the old one
Open_keep_handle(t) ==
    /\ pc[t] = "open"
    /\ LET s == tsink[t]
           new_filename == create_new_file(s)
       IN  /\ fs' = file_helper_open(fs, new_filename, open_truncate, now)
           /\ file_helper_' = [file_helper_ EXCEPT ![s].fd = TRUE]
           /\ current_size_' = [current_size_ EXCEPT ![s] = 0]
           /\ opens' = [opens EXCEPT ![s] = Append(@, [name |-> new_filename,
                                                        created |-> new_filename \notin DOMAIN fs,
                                                        by |-> cur[t]])]
           /\ calls' = [calls EXCEPT ![cur[t]].rotated = TRUE]
    /\ pc' = [pc EXCEPT ![t] = "symlink"]
    /\ UNCHANGED << now, links, cfgvars, loggervars, built, last_rotation_check_, lockvars, cur,
                    log_files, wrote, deleted, failed >>

\* new_filename = create_new_file(); file_helper_.open(new_filename, false);
\* current_size_ = 0
Open(t) ==
    /\ pc[t] = "open"
    /\ LET s == tsink[t]
           new_filename == create_new_file(s)
       IN  /\ fs' = file_helper_open(fs, new_filename, open_truncate, now)
           /\ file_helper_' = [file_helper_ EXCEPT ![s] = [fd |-> TRUE, filename |-> new_filename]]
           /\ current_size_' = [current_size_ EXCEPT ![s] = 0]
           /\ opens' = [opens EXCEPT ![s] = Append(@, [name |-> new_filename,
                                                        created |-> new_filename \notin DOMAIN fs,
                                                        by |-> cur[t]])]
           /\ calls' = [calls EXCEPT ![cur[t]].rotated = TRUE]
    /\ pc' = [pc EXCEPT ![t] = "symlink"]
    /\ UNCHANGED << now, links, cfgvars, loggervars, built, last_rotation_check_, lockvars, cur,
                    log_files, wrote, deleted, failed >>

\* update_symlink(new_filename)
Symlink(t) ==
    /\ pc[t] = "symlink"
    /\ links' = update_symlink(links, fs, tsink[t], file_helper_[tsink[t]].filename)
    /\ failed' = [failed EXCEPT ![tsink[t]] = @ \ {"alias"}]
    /\ pc' = [pc EXCEPT ![t] = "cleanup"]
    /\ UNCHANGED << now, fs, cfgvars, loggervars, sinkvars, lockvars, cur, log_files,
                    calls, opens, wrote, deleted >>

\* mutant: cleanup_old_files entered without waiting for cleanup_mutex
CleanupEnter_unlocked(t) ==
    /\ pc[t] = "cleanup"
    /\ cleanup_mutex' = t
    /\ \E order \in SortedByMtime(Candidates(tsink[t], fs), fs) :
         log_files' = [log_files EXCEPT ![t] = order]
    /\ pc' = [pc EXCEPT ![t] = "prune"]
    /\ UNCHANGED << now, fs, links, cfgvars, loggervars, sinkvars, rotation_mutex_, mutex_, cur, histvars >>

\* cleanup_old_files: lock cleanup_mutex, list the directory, sort by mtime
CleanupEnter(t) ==
    /\ pc[t] = "cleanup"
    /\ cleanup_mutex = NoThread
    /\ cleanup_mutex' = t
    /\ \E order \in SortedByMtime(Candidates(tsink[t], fs), fs) :
         log_files' = [log_files EXCEPT ![t] = order]
    /\ pc' = [pc EXCEPT ![t] = "prune"]
    /\ UNCHANGED << now, fs, links, cfgvars, loggervars, sinkvars, rotation_mutex_, mutex_, cur, histvars >>

\* mutant: cleanup_old_files returns without releasing cleanup_mutex
CleanupRun_keeps_lock(t) ==
    /\ pc[t] = "prune"
    /\ fs' = cleanup_sorted(log_files[t], fs, file_helper_[tsink[t]].filename,
                            max_total_size_[tsink[t]], {})
    /\ log_files' = [log_files EXCEPT ![t] = << >>]
    /\ deleted' = deleted \cup (DOMAIN fs \ DOMAIN fs')
    /\ calls' = [calls EXCEPT ![cur[t]].cleaned = TRUE]
    /\ pc' = [pc EXCEPT ![t] = "stamp"]
    /\ UNCHANGED << now, links, cfgvars, loggervars, sinkvars, lockvars, cur,
                    opens, wrote, failed >>

\* cleanup_old_files: sum the sizes, delete from the oldest, unlock
CleanupRun(t) ==
    /\ pc[t] = "prune"
    /\ fs' = cleanup_sorted(log_files[t], fs, file_helper_[tsink[t]].filename,
                            max_total_size_[tsink[t]], {})
    /\ log_files' = [log_files EXCEPT ![t] = << >>]
    /\ cleanup_mutex' = NoThread
    /\ deleted' = deleted \cup (DOMAIN fs \ DOMAIN fs')
    /\ calls' = [calls EXCEPT ![cur[t]].cleaned = TRUE]
    /\ pc' = [pc EXCEPT ![t] = "stamp"]
    /\ UNCHANGED << now, links, cfgvars, loggervars, sinkvars, rotation_mutex_, mutex_, cur,
                    opens, wrote, failed >>

\* mutant: the slow path ends without stamping the time of the check
Stamp_unstamped(t) ==
    /\ pc[t] = "stamp"
    /\ rotation_mutex_' = [rotation_mutex_ EXCEPT ![tsink[t]] = NoThread]
    /\ pc' = [pc EXCEPT ![t] = "write"]
    /\ UNCHANGED << now, fs, links, cfgvars, loggervars, sinkvars, mutex_, cleanup_mutex, cur,
                    log_files, histvars >>

\* last_rotation_check_ = now; the lock_guard of rotation_mutex_ ends
Stamp(t) ==
    /\ pc[t] = "stamp"
    /\ last_rotation_check_' = [last_rotation_check_ EXCEPT ![tsink[t]] = now]
    /\ rotation_mutex_' = [rotation_mutex_ EXCEPT ![tsink[t]] = NoThread]
    /\ pc' = [pc EXCEPT ![t] = "write"]
    /\ UNCHANGED << now, fs, links, cfgvars, loggervars, built, file_helper_, current_size_, mutex_,
                    cleanup_mutex, cur, log_files, histvars >>

\* mutant: every write is followed by a retention cleanup
Write_then_cleanup(t) ==
    /\ pc[t] = "write"
    /\ LET s == tsink[t]
           id == cur[t]
           n == calls[id].size
           fs1 == IF file_helper_[s].fd
                    THEN file_helper_write(fs, file_helper_[s].filename, id, n, now)
                    ELSE fs
       IN  /\ \E order \in SortedByMtime(Candidates(s, fs1), fs1) :
                fs' = cleanup_sorted(order, fs1, file_helper_[s].filename, max_total_size_[s], {})
           /\ current_size_' = [current_size_ EXCEPT ![s] = @ + n]
           /\ calls' = [calls EXCEPT ![id].dest = IF file_helper_[s].fd
                                                   THEN file_helper_[s].filename ELSE NoName,
                                     ![id].epoch = Len(opens[s]),
                                     ![id].state = IF file_helper_[s].fd THEN "written" ELSE "dropped"]
           /\ wrote' = IF file_helper_[s].fd THEN Append(wrote, id) ELSE wrote
           /\ mutex_' = [mutex_ EXCEPT ![s] = NoThread]
    /\ cur' = [cur EXCEPT ![t] = 0]
    /\ pc' = [pc EXCEPT ![t] = "idle"]
    /\ UNCHANGED << now, links, cfgvars, loggervars, built, file_helper_, last_rotation_check_,
                    rotation_mutex_, cleanup_mutex, log_files, opens, deleted, failed >>

\* file_helper_.write(formatted); current_size_ += msg_size; log() returns
Write(t) ==
    /\ pc[t] = "write"
    /\ LET s == tsink[t]
           id == cur[t]
           n == calls[id].size
       IN  /\ fs' = IF file_helper_[s].fd
                      THEN file_helper_write(fs, file_helper_[s].filename, id, n, now)
                      ELSE fs
           /\ current_size_' = [current_size_ EXCEPT ![s] = @ + n]
           /\ calls' = [calls EXCEPT ![id].dest = IF file_helper_[s].fd
                                                   THEN file_helper_[s].filename ELSE NoName,
                                     ![id].epoch = Len(opens[s]),
                                     ![id].state = IF file_helper_[s].fd THEN "written" ELSE "dropped"]
           /\ wrote' = IF file_helper_[s].fd THEN Append(wrote, id) ELSE wrote
           /\ mutex_' = [mutex_ EXCEPT ![s] = NoThread]
    /\ cur' = [cur EXCEPT ![t] = 0]
    /\ pc' = [pc EXCEPT ![t] = "idle"]
    /\ UNCHANGED << now, links, cfgvars, loggervars, built, file_helper_, last_rotation_check_,
                    rotation_mutex_, cleanup_mutex, log_files, opens, deleted, failed >>

\* the positions at which a thread reads a clock next (should_check_rotation,
\* get_timestamp_str, steady_clock::now, the mtime of a write): a tick at any
\* other position cannot be told from a tick right before the next read
ClockRead == {"idle", "check", "open", "stamp", "write", "flush"}

\* the clock advances
Tick ==
    /\ now < MaxTick
    /\ \A t \in Threads : pc[t] \in ClockRead
    /\ now' = now + 1
    /\ UNCHANGED << fs, links, cfgvars, loggervars, sinkvars, lockvars, pc, cur, log_files, histvars >>

Next ==
    \/ \E s \in SinkIds : Construct(s)
    \/ \E t \in Threads : Log(t)
    \/ \E t \in Threads : Check(t)
    \/ \E t \in Threads : Lock(t)
    \/ \E t \in Threads : Recheck(t)
    \/ \E t \in Threads : Close(t)
    \/ \E t \in Threads : Open(t)
    \/ \E t \in Threads : Symlink(t)
    \/ \E t \in Threads : CleanupEnter(t)
    \/ \E t \in Threads : CleanupRun(t)
    \/ \E t \in Threads : Stamp(t)
    \/ \E t \in Threads : Write(t)
    \/ Tick

Spec == Init /\ [][Next]_vars

\* ------------------------------------------------------------ flush
\* base_sink<Mutex>::flush: take mutex_
FlushEnter(t) ==
    /\ pc[t] = "idle"
    /\ built[tsink[t]] = "ok"
    /\ mutex_[tsink[t]] = NoThread
    /\ mutex_' = [mutex_ EXCEPT ![tsink[t]] = t]
    /\ pc' = [pc EXCEPT ![t] = "flush"]
    /\ UNCHANGED << now, fs, links, cfgvars, loggervars, sinkvars, rotation_mutex_,
                    cleanup_mutex, cur, log_files, histvars >>

\* mutant: a flush that re-reads the file's size and stamps the check time
Flush_correcting(t) ==
    /\ pc[t] = "flush"
    /\ current_size_' = [current_size_ EXCEPT ![tsink[t]] = file_helper_size(tsink[t])]
    /\ last_rotation_check_' = [last_rotation_check_ EXCEPT ![tsink[t]] = now]
    /\ mutex_' = [mutex_ EXCEPT ![tsink[t]] = NoThread]
    /\ pc' = [pc EXCEPT ![t] = "idle"]
    /\ UNCHANGED << now, fs, links, cfgvars, loggervars, built, file_helper_, rotation_mutex_,
                    cleanup_mutex, cur, log_files, histvars >>

\* flush_: file_helper_.flush(), which hands the bytes written so far to the
\* operating system; flush() returns and its lock_guard ends
Flush(t) ==
    /\ pc[t] = "flush"
    /\ mutex_' = [mutex_ EXCEPT ![tsink[t]] = NoThread]
    /\ pc' = [pc EXCEPT ![t] = "idle"]
    /\ UNCHANGED << now, fs, links, cfgvars, loggervars, sinkvars, rotation_mutex_,
                    cleanup_mutex, cur, log_files, histvars >>

NextFlush ==
    \/ Next
    \/ \E t \in Threads : FlushEnter(t)
    \/ \E t \in Threads : Flush(t)

\* the sink with threads that log and threads that flush
SpecFlush == Init /\ [][NextFlush]_vars

\* ------------------------------------------------------------ truncation
\* another process empties the sink's open file between two calls (the file
\* is opened in append mode, so later writes go to its new end): from then on
\* current_size_ is above the file's size
Truncate(s) ==
    /\ built[s] = "ok"
    /\ file_helper_[s].fd
    /\ mutex_[s] = NoThread
    /\ file_helper_size(s) > 0
    /\ fs' = Put(fs, file_helper_[s].filename, [content |-> << >>, mtime |-> now])
    /\ UNCHANGED << now, links, cfgvars, loggervars, sinkvars, lockvars, pc, cur, log_files,
                    histvars >>

NextTruncate ==
    \/ Next
    \/ \E s \in SinkIds : Truncate(s)

\* the sink with a file that may shrink under it
SpecTruncate == Init /\ [][NextTruncate]_vars

\* ------------------------------------------------------------ two sinks
\* a second base filename, which contains the first
APP2 == << "a", "b" >>

\* two sinks of one stream tag in one directory, base filenames a and ab,
\* each with its own logging threads; small files, no retention budget, the
\* clock one tick before its last second boundary
InitTwoSinks ==
    /\ now = MaxTick - 1
    /\ fs = << >>
    /\ links = << >>
    /\ built = [s \in SinkIds |-> "unbuilt"]
    /\ log_type_ = [s \in SinkIds |-> INFO]
    /\ base_filename_ = [s \in SinkIds |-> IF s = 1 THEN APP ELSE APP2]
    /\ max_size_ = [s \in SinkIds |-> 1]
    /\ max_total_size_ = [s \in SinkIds |-> 0]
    /\ file_helper_ = [s \in SinkIds |-> [fd |-> FALSE, filename |-> NoName]]
    /\ current_size_ = [s \in SinkIds |-> 0]
    /\ last_rotation_check_ = [s \in SinkIds |-> 0]
    /\ rotation_mutex_ = [s \in SinkIds |-> NoThread]
    /\ mutex_ = [s \in SinkIds |-> NoThread]
    /\ cleanup_mutex = NoThread
    /\ tsink = [t \in Threads |-> IF t % 2 = 1 THEN 1 ELSE 2]
    /\ pc = [t \in Threads |-> "idle"]
    /\ cur = [t \in Threads |-> 0]
    /\ log_files = [t \in Threads |-> << >>]
    /\ calls = << >>
    /\ opens = [s \in SinkIds |-> << >>]
    /\ wrote = << >>
    /\ deleted = {}
    /\ failed = [s \in SinkIds |-> {}]
    /\ LoggerInit

SpecTwoSinks == InitTwoSinks /\ [][Next]_vars

\* ------------------------------------------------------------ two stream tags
\* the log_type of a second sink of the same Logger
WARNING == << "W" >>

\* a file of the WARNING stream left by an earlier run
OldWarnName == WARNING \o << "." >> \o << "0" >> \o << "." >> \o APP

\* two sinks of one Logger: the same base filename, log_types INFO and
\* WARNING, one directory; small files, no retention budget, an old file of
\* the WARNING stream on disk, the clock one tick before its last second
\* boundary
InitTags ==
    /\ now = MaxTick - 1
    /\ \E sz \in OldSizes : fs = [n \in {OldWarnName} |-> OldFile(sz)]
    /\ links = << >>
    /\ built = [s \in SinkIds |-> "unbuilt"]
    /\ log_type_ = [s \in SinkIds |-> IF s = 1 THEN INFO ELSE WARNING]
    /\ base_filename_ = [s \in SinkIds |-> APP]
    /\ max_size_ = [s \in SinkIds |-> 1]
    /\ max_total_size_ = [s \in SinkIds |-> 0]
    /\ file_helper_ = [s \in SinkIds |-> [fd |-> FALSE, filename |-> NoName]]
    /\ current_size_ = [s \in SinkIds |-> 0]
    /\ last_rotation_check_ = [s \in SinkIds |-> 0]
    /\ rotation_mutex_ = [s \in SinkIds |-> NoThread]
    /\ mutex_ = [s \in SinkIds |-> NoThread]
    /\ cleanup_mutex = NoThread
    /\ tsink = [t \in Threads |-> IF t % 2 = 1 THEN 1 ELSE 2]
    /\ pc = [t \in Threads |-> "idle"]
    /\ cur = [t \in Threads |-> 0]
    /\ log_files = [t \in Threads |-> << >>]
    /\ calls = << >>
    /\ opens = [s \in SinkIds |-> << >>]
    /\ wrote = << >>
    /\ deleted = {}
    /\ failed = [s \in SinkIds |-> {}]
    /\ LoggerInit

SpecTags == InitTags /\ [][Next]_vars

\* ------------------------------------------------------------ fair scheduling
\* the step thread t takes next inside sink_it_ or flush_
Step(t) ==
    \/ Check(t)
    \/ Recheck(t)
    \/ Close(t)
    \/ Open(t)
    \/ Symlink(t)
    \/ CleanupRun(t)
    \/ Stamp(t)
    \/ Write(t)
    \/ Flush(t)

\* the largest message size: with max_size 1 every such message rotates
LargestMessage == CHOOSE m \in MsgSizes : \A x \in MsgSizes : x <= m

\* every step of the sinks but the passing of time, every message of the
\* largest size
NextLive ==
    \/ \E s \in SinkIds : Construct(s)
    \/ \E t \in Threads : LogOf(t, {LargestMessage})
    \/ \E t \in Threads : Lock(t)
    \/ \E t \in Threads : CleanupEnter(t)
    \/ \E t \in Threads : FlushEnter(t)
    \/ \E t \in Threads : Step(t)

\* the two sinks at the last instant of the clock
InitLive ==
    /\ now = MaxTick
    /\ fs = << >>
    /\ links = << >>
    /\ built = [s \in SinkIds |-> "unbuilt"]
    /\ log_type_ = [s \in SinkIds |-> INFO]
    /\ base_filename_ = [s \in SinkIds |-> IF s = 1 THEN APP ELSE APP2]
    /\ max_size_ = [s \in SinkIds |-> 1]
    /\ max_total_size_ = [s \in SinkIds |-> 0]
    /\ file_helper_ = [s \in SinkIds |-> [fd |-> FALSE, filename |-> NoName]]
    /\ current_size_ = [s \in SinkIds |-> 0]
    /\ last_rotation_check_ = [s \in SinkIds |-> 0]
    /\ rotation_mutex_ = [s \in SinkIds |-> NoThread]
    /\ mutex_ = [s \in SinkIds |-> NoThread]
    /\ cleanup_mutex = NoThread
    /\ tsink = [t \in Threads |-> IF t % 2 = 1 THEN 1 ELSE 2]
    /\ pc = [t \in Threads |-> "idle"]
    /\ cur = [t \in Threads |-> 0]
    /\ log_files = [t \in Threads |-> << >>]
    /\ calls = << >>
    /\ opens = [s \in SinkIds |-> << >>]
    /\ wrote = << >>
    /\ deleted = {}
    /\ failed = [s \in SinkIds |-> {}]
    /\ LoggerInit

\* a thread that can go on inside its call, or take the mutex it waits for,
\* from some point on without interruption does so: the weakest fairness of
\* a scheduler, which every stronger one implies
Fairness ==
    \A t \in Threads : WF_vars(Step(t) \/ Lock(t) \/ CleanupEnter(t))

\* two sinks with threads that log and flush, under fair scheduling
SpecLive == InitLive /\ [][NextLive]_vars /\ Fairness

\* ------------------------------------------------------------ failures
\* the number of calls that met a file system failure
Faults == Cardinality({id \in DOMAIN calls : calls[id].fault})

\* mutant: the failure of file_helper_.open is swallowed and sink_it_ goes on
OpenFail_swallowed(t) ==
    /\ pc[t] = "open"
    /\ Faults < MaxFaults
    /\ LET s == tsink[t] IN
       /\ file_helper_' = [file_helper_ EXCEPT ![s] = [fd |-> FALSE, filename |-> create_new_file(s)]]
       /\ failed' = [failed EXCEPT ![s] = @ \cup {"open"}]
    /\ calls' = [calls EXCEPT ![cur[t]].fault = TRUE, ![cur[t]].error = "open"]
    /\ pc' = [pc EXCEPT ![t] = "symlink"]
    /\ UNCHANGED << now, fs, links, cfgvars, loggervars, built, current_size_,
                    last_rotation_check_, lockvars, cur, log_files, opens, wrote, deleted >>

\* mutant: the counter is reset before the open that fails
OpenFail_resets(t) ==
    /\ pc[t] = "open"
    /\ Faults < MaxFaults
    /\ LET s == tsink[t] IN
       /\ file_helper_' = [file_helper_ EXCEPT ![s] = [fd |-> FALSE, filename |-> create_new_file(s)]]
       /\ current_size_' = [current_size_ EXCEPT ![s] = 0]
       /\ rotation_mutex_' = [rotation_mutex_ EXCEPT ![s] = NoThread]
       /\ mutex_' = [mutex_ EXCEPT ![s] = NoThread]
       /\ failed' = [failed EXCEPT ![s] = @ \cup {"open"}]
    /\ calls' = [calls EXCEPT ![cur[t]].state = "threw", ![cur[t]].fault = TRUE,
                              ![cur[t]].error = "open"]
    /\ cur' = [cur EXCEPT ![t] = 0]
    /\ pc' = [pc EXCEPT ![t] = "idle"]
    /\ UNCHANGED << now, fs, links, cfgvars, loggervars, built, last_rotation_check_,
                    cleanup_mutex, log_files, opens, wrote, deleted >>

\* file_helper_.open throws in a rotation: filename_ is already the new name,
\* no file is open, the exception leaves sink_it_ and log(), both lock_guards end
OpenFail(t) ==
    /\ pc[t] = "open"
    /\ Faults < MaxFaults
    /\ LET s == tsink[t] IN
       /\ file_helper_' = [file_helper_ EXCEPT ![s] = [fd |-> FALSE, filename |-> create_new_file(s)]]
       /\ rotation_mutex_' = [rotation_mutex_ EXCEPT ![s] = NoThread]
       /\ mutex_' = [mutex_ EXCEPT ![s] = NoThread]
       /\ failed' = [failed EXCEPT ![s] = @ \cup {"open"}]
    /\ calls' = [calls EXCEPT ![cur[t]].state = "threw", ![cur[t]].fault = TRUE,
                              ![cur[t]].error = "open"]
    /\ cur' = [cur EXCEPT ![t] = 0]
    /\ pc' = [pc EXCEPT ![t] = "idle"]
    /\ UNCHANGED << now, fs, links, cfgvars, loggervars, built, current_size_, last_rotation_check_,
                    cleanup_mutex, log_files, opens, wrote, deleted >>

\* mutant: the failure of update_symlink leaves sink_it_ as an exception
SymlinkFail_throws(t) ==
    /\ pc[t] = "symlink"
    /\ Faults < MaxFaults
    /\ LET s == tsink[t] IN
       /\ rotation_mutex_' = [rotation_mutex_ EXCEPT ![s] = NoThread]
       /\ mutex_' = [mutex_ EXCEPT ![s] = NoThread]
       /\ failed' = [failed EXCEPT ![s] = @ \cup {"alias"}]
    /\ calls' = [calls EXCEPT ![cur[t]].state = "threw", ![cur[t]].fault = TRUE,
                              ![cur[t]].error = "alias"]
    /\ cur' = [cur EXCEPT ![t] = 0]
    /\ pc' = [pc EXCEPT ![t] = "idle"]
    /\ UNCHANGED << now, fs, links, cfgvars, loggervars, sinkvars, cleanup_mutex, log_files,
                    opens, wrote, deleted >>

\* update_symlink fails and so does its `ln -sf` fallback: the link is left as
\* it was, or removed and not created again; nothing is thrown
SymlinkFail(t) ==
    /\ pc[t] = "symlink"
    /\ Faults < MaxFaults
    /\ LET s == tsink[t]
           name == symlink_name(s)
       IN  /\ links' \in {links, IF path_exists(links, fs, name) THEN Del(links, name) ELSE links}
           /\ failed' = [failed EXCEPT ![s] = @ \cup {"alias"}]
    /\ calls' = [calls EXCEPT ![cur[t]].fault = TRUE, ![cur[t]].error = "alias"]
    /\ pc' = [pc EXCEPT ![t] = "cleanup"]
    /\ UNCHANGED << now, fs, cfgvars, loggervars, sinkvars, lockvars, cur, log_files,
                    opens, wrote, deleted >>

\* file_helper_.size() on a closed file throws: the exception leaves sink_it_
RecheckThrow(t) ==
    /\ pc[t] = "recheck"
    /\ ~file_helper_[tsink[t]].fd
    /\ rotation_mutex_' = [rotation_mutex_ EXCEPT ![tsink[t]] = NoThread]
    /\ mutex_' = [mutex_ EXCEPT ![tsink[t]] = NoThread]
    /\ calls' = [calls EXCEPT ![cur[t]].state = "threw"]
    /\ cur' = [cur EXCEPT ![t] = 0]
    /\ pc' = [pc EXCEPT ![t] = "idle"]
    /\ UNCHANGED << now, fs, links, cfgvars, loggervars, sinkvars, cleanup_mutex, log_files,
                    opens, wrote, deleted, failed >>

\* the constructor's file_helper_.open throws: the exception leaves the
\* constructor, no sink comes into being
ConstructOpenFail(s) ==
    /\ built[s] = "unbuilt"
    /\ built' = [built EXCEPT ![s] = "failed"]
    /\ failed' = [failed EXCEPT ![s] = @ \cup {"open"}]
    /\ UNCHANGED << now, fs, links, cfgvars, loggervars, file_helper_, current_size_,
                    last_rotation_check_, lockvars, pc, cur, log_files, calls, opens, wrote,
                    deleted >>

\* the constructor with update_symlink and its fallback failing: the link is
\* left as it was or removed, construction goes on with the cleanup
ConstructAliasFail(s) ==
    /\ built[s] = "unbuilt"
    /\ LET current_filename == create_new_file(s)
           fs1 == file_helper_open(fs, current_filename, open_truncate, now)
           name == symlink_name(s)
       IN  /\ file_helper_' = [file_helper_ EXCEPT ![s] = [fd |-> TRUE, filename |-> current_filename]]
           /\ current_size_' = [current_size_ EXCEPT ![s] = FileSize(fs1, current_filename)]
           /\ links' \in {links, IF path_exists(links, fs1, name) THEN Del(links, name) ELSE links}
           /\ \E order \in SortedByMtime(Candidates(s, fs1), fs1) :
                fs' = cleanup_sorted(order, fs1, current_filename, max_total_size_[s], {})
           /\ opens' = [opens EXCEPT ![s] = Append(@, [name |-> current_filename,
                                                        created |-> current_filename \notin DOMAIN fs,
                                                        by |-> 0])]
    /\ last_rotation_check_' = [last_rotation_check_ EXCEPT ![s] = now]
    /\ built' = [built EXCEPT ![s] = "ok"]
    /\ deleted' = deleted \cup (DOMAIN fs \ DOMAIN fs')
    /\ failed' = [failed EXCEPT ![s] = @ \cup {"alias"}]
    /\ UNCHANGED << now, cfgvars, loggervars, lockvars, pc, cur, log_files, calls, wrote >>

NextFail ==
    \/ Next
    \/ \E s \in SinkIds : ConstructOpenFail(s)
    \/ \E s \in SinkIds : ConstructAliasFail(s)
    \/ \E t \in Threads : OpenFail(t)
    \/ \E t \in Threads : SymlinkFail(t)
    \/ \E t \in Threads : RecheckThrow(t)

InitFail ==
    /\ Init
    /\ max_size_[1] = 3
    /\ max_total_size_[1] = 3

\* the sink with file system failures
SpecFail == InitFail /\ [][NextFail]_vars

\* ------------------------------------------------------------ cleanup failures
\* directory_iterator throws while cleanup_old_files lists the directory: the
\* exception is caught, cleanup returns without deleting anything
CleanupListFail(t) ==
    /\ pc[t] = "cleanup"
    /\ cleanup_mutex = NoThread
    /\ Faults < MaxFaults
    /\ calls' = [calls EXCEPT ![cur[t]].fault = TRUE, ![cur[t]].error = "list"]
    /\ pc' = [pc EXCEPT ![t] = "stamp"]
    /\ UNCHANGED << now, fs, links, cfgvars, loggervars, sinkvars, lockvars, cur, log_files,
                    opens, wrote, deleted, failed >>

\* a listed file other than the open one is gone (removed by another process)
\* when the sort reads its last_write_time or the loops read its file_size:
\* these calls are in no try block, the filesystem_error leaves
\* cleanup_old_files, sink_it_ and log(), and the three lock_guards end
CleanupStatThrow(t) ==
    /\ pc[t] = "prune"
    /\ Len(log_files[t]) > 1
    /\ Faults < MaxFaults
    /\ LET s == tsink[t] IN
       /\ \E f \in Range(log_files[t]) \ {file_helper_[s].filename} : fs' = Del(fs, f)
       /\ rotation_mutex_' = [rotation_mutex_ EXCEPT ![s] = NoThread]
       /\ mutex_' = [mutex_ EXCEPT ![s] = NoThread]
       /\ failed' = [failed EXCEPT ![s] = @ \cup {"stat"}]
    /\ cleanup_mutex' = NoThread
    /\ log_files' = [log_files EXCEPT ![t] = << >>]
    /\ calls' = [calls EXCEPT ![cur[t]].state = "threw", ![cur[t]].fault = TRUE,
                              ![cur[t]].error = "stat"]
    /\ cur' = [cur EXCEPT ![t] = 0]
    /\ pc' = [pc EXCEPT ![t] = "idle"]
    /\ UNCHANGED << now, links, cfgvars, loggervars, sinkvars, opens, wrote, deleted >>

\* std::filesystem::remove throws for some of the files: each exception is
\* caught in the loop, which goes on with the next file
CleanupRemoveFail(t) ==
    /\ pc[t] = "prune"
    /\ Faults < MaxFaults
    /\ LET s == tsink[t]
           curr_path == file_helper_[s].filename
       IN  \E locked \in SUBSET (Range(log_files[t]) \ {curr_path}) :
             /\ fs' = cleanup_sorted(log_files[t], fs, curr_path, max_total_size_[s], locked)
             /\ fs' # cleanup_sorted(log_files[t], fs, curr_path, max_total_size_[s], {})
             /\ calls' = [calls EXCEPT ![cur[t]].cleaned = TRUE, ![cur[t]].fault = TRUE,
                                       ![cur[t]].error = "remove",
                                       ![cur[t]].locked = locked]
    /\ log_files' = [log_files EXCEPT ![t] = << >>]
    /\ cleanup_mutex' = NoThread
    /\ deleted' = deleted \cup (DOMAIN fs \ DOMAIN fs')
    /\ pc' = [pc EXCEPT ![t] = "stamp"]
    /\ UNCHANGED << now, links, cfgvars, loggervars, sinkvars, rotation_mutex_, mutex_, cur,
                    opens, wrote, failed >>

\* the constructor's cleanup meets a listed file that is gone: the
\* filesystem_error leaves the constructor after the file was opened and the
\* link set, no sink comes into being
ConstructCleanupThrow(s) ==
    /\ built[s] = "unbuilt"
    /\ LET current_filename == create_new_file(s)
           fs1 == file_helper_open(fs, current_filename, open_truncate, now)
       IN  /\ Cardinality(Candidates(s, fs1)) > 1
           /\ links' = update_symlink(links, fs1, s, current_filename)
           /\ \E f \in Candidates(s, fs1) \ {current_filename} : fs' = Del(fs1, f)
    /\ built' = [built EXCEPT ![s] = "failed"]
    /\ failed' = [failed EXCEPT ![s] = @ \cup {"stat"}]
    /\ UNCHANGED << now, cfgvars, loggervars, file_helper_, current_size_,
                    last_rotation_check_, lockvars, pc, cur, log_files, calls, opens, wrote,
                    deleted >>

NextCleanupFail ==
    \/ Next
    \/ \E s \in SinkIds : ConstructCleanupThrow(s)
    \/ \E t \in Threads : CleanupListFail(t)
    \/ \E t \in Threads : CleanupStatThrow(t)
    \/ \E t \in Threads : CleanupRemoveFail(t)

InitCleanupFail ==
    /\ Init
    /\ max_size_[1] = 1
    /\ max_total_size_[1] \in {0, 3}

\* the sink with file system failures in the retention cleanup
SpecCleanupFail == InitCleanupFail /\ [][NextCleanupFail]_vars

\* ------------------------------------------------------------ Logger

\* mutant: every sink takes all levels
sink_level_debug(tag) == DEBUG

\* set_level of the three file sinks: debug, warn, err
sink_level(tag) ==
    CASE tag = "INFO" -> DEBUG
      [] tag = "WARN" -> WARN
      [] tag = "ERROR" -> ERROR

\* the thread pool's worker hands a message to every sink whose level admits it
deliver(strs, m) ==
    [x \in DOMAIN strs |->
        IF x[1] = m.prefix /\ m.level >= sink_level(x[2]) THEN strs[x] \cup {m.id} ELSE strs[x]]

RECURSIVE drain(_, _)
drain(strs, q) == IF q = << >> THEN strs ELSE drain(deliver(strs, Head(q)), Tail(q))

\* Logger::Initialize is entered.  Its arguments are read by the body alone
\* and are chosen where the body reads them; a call that does not run the
\* body stands for a call with any arguments
InitializeCall(t) ==
    /\ lpc[t] = "idle"
    /\ larg' = [larg EXCEPT ![t] = [after_shutdown |-> shutdowns >= 1, log |-> 0]]
    /\ lpc' = [lpc EXCEPT ![t] = "call_once"]
    /\ UNCHANGED << now, fs, links, cfgvars, sinkvars, lockvars, pc, cur, log_files, histvars,
                    init_flag_, initialized_, enable_debug_, enable_console_, enable_file_,
                    registry, queue, streams, returns, logged, body_runs, shutdowns >>

\* mutant: a once_flag that lets a second caller in while the first is active
CallOnce_unguarded(t) ==
    /\ lpc[t] = "call_once"
    /\ IF init_flag_ = "done"
         THEN /\ lpc' = [lpc EXCEPT ![t] = "return"]
              /\ UNCHANGED << init_flag_, body_runs >>
         ELSE /\ init_flag_' = "active"
              /\ body_runs' = body_runs + 1
              /\ lpc' = [lpc EXCEPT ![t] = "body"]
    /\ UNCHANGED << now, fs, links, cfgvars, sinkvars, lockvars, pc, cur, log_files, histvars,
                    initialized_, enable_debug_, enable_console_, enable_file_,
                    registry, queue, larg, streams, returns, logged, shutdowns >>

\* std::call_once(init_flag_, ...): the first caller runs the body, a caller
\* that finds it running waits, a caller that finds it done passes
CallOnce(t) ==
    /\ lpc[t] = "call_once"
    /\ init_flag_ # "active"
    /\ IF init_flag_ = "done"
         THEN /\ lpc' = [lpc EXCEPT ![t] = "return"]
              /\ UNCHANGED << init_flag_, body_runs >>
         ELSE /\ init_flag_' = "active"
              /\ body_runs' = body_runs + 1
              /\ lpc' = [lpc EXCEPT ![t] = "body"]
    /\ UNCHANGED << now, fs, links, cfgvars, sinkvars, lockvars, pc, cur, log_files, histvars,
                    initialized_, enable_debug_, enable_console_, enable_file_,
                    registry, queue, larg, streams, returns, logged, shutdowns >>

\* the log_type of the third sink of the Logger
ERRORS == << "E" >>
LoggerTypes == << INFO, WARNING, ERRORS >>

\* the file a sink of the Logger opens at construction: type.timestamp.prefix
sink_file(type, log_file_prefix) ==
    type \o << "." >> \o get_timestamp_str(now) \o << "." >> \o << log_file_prefix >>

\* the constructors of the first n sinks of the Logger: each opens its file
\* for appending (its cleanup finds that one file of its stream)
RECURSIVE make_sinks(_, _, _)
make_sinks(fsys, log_file_prefix, n) ==
    IF n = 0 THEN fsys
    ELSE file_helper_open(make_sinks(fsys, log_file_prefix, n - 1),
                          sink_file(LoggerTypes[n], log_file_prefix), open_truncate, now)

\* the aliases prefix.type the constructors of the first n sinks create
RECURSIVE make_links(_, _, _)
make_links(lnk, log_file_prefix, n) ==
    IF n = 0 THEN lnk
    ELSE Put(make_links(lnk, log_file_prefix, n - 1),
             << log_file_prefix >> \o << "." >> \o LoggerTypes[n],
             sink_file(LoggerTypes[n], log_file_prefix))

\* mutant: a rejected Initialize leaves the once_flag unset
InitializeBody_retry(t) ==
    /\ lpc[t] = "body"
    /\ \E log_file_prefix \in Prefixes, enable_debug \in BOOLEAN, enable_file \in BOOLEAN :
         /\ enable_debug_' = enable_debug
         /\ enable_console_' = FALSE
         /\ enable_file_' = enable_file
         /\ IF ~enable_file \/ registry # NoLogger
              THEN /\ initialized_' = FALSE
                   /\ init_flag_' = "unset"
                   /\ UNCHANGED << registry, fs, links >>
              ELSE /\ fs' = make_sinks(fs, log_file_prefix, Len(LoggerTypes))
                   /\ links' = make_links(links, log_file_prefix, Len(LoggerTypes))
                   /\ registry' = [prefix |-> log_file_prefix,
                                   level |-> IF enable_debug THEN DEBUG ELSE LINFO,
                                   file |-> TRUE]
                   /\ initialized_' = TRUE
                   /\ init_flag_' = "done"
    /\ lpc' = [lpc EXCEPT ![t] = "return"]
    /\ UNCHANGED << now, cfgvars, sinkvars, lockvars, pc, cur, log_files, histvars,
                    queue, larg, streams, returns, logged, body_runs, shutdowns >>

\* the body: save the settings; with no output enabled give up; otherwise
\* create the thread pool, the three sinks (each opens its file and sets its
\* alias) and the async logger, register it (register_logger throws
\* spdlog_ex when the name is taken, which is caught)
InitializeBody(t) ==
    /\ lpc[t] = "body"
    /\ \E log_file_prefix \in Prefixes, enable_debug \in BOOLEAN, enable_file \in BOOLEAN :
         /\ enable_debug_' = enable_debug
         /\ enable_console_' = FALSE
         /\ enable_file_' = enable_file
         /\ IF ~enable_file \/ registry # NoLogger
              THEN /\ initialized_' = FALSE
                   /\ UNCHANGED << registry, fs, links >>
              ELSE /\ fs' = make_sinks(fs, log_file_prefix, Len(LoggerTypes))
                   /\ links' = make_links(links, log_file_prefix, Len(LoggerTypes))
                   /\ registry' = [prefix |-> log_file_prefix,
                                   level |-> IF enable_debug THEN DEBUG ELSE LINFO,
                                   file |-> TRUE]
                   /\ initialized_' = TRUE
    /\ init_flag_' = "done"
    /\ lpc' = [lpc EXCEPT ![t] = "return"]
    /\ UNCHANGED << now, cfgvars, sinkvars, lockvars, pc, cur, log_files, histvars,
                    queue, larg, streams, returns, logged, body_runs, shutdowns >>

\* return initialized_.load()
InitializeReturn(t) ==
    /\ lpc[t] = "return"
    /\ returns' = returns \cup {[after_shutdown |-> shutdowns >= 1, value |-> initialized_]}
    /\ larg' = [larg EXCEPT ![t] = NoArg]
    /\ lpc' = [lpc EXCEPT ![t] = "idle"]
    /\ UNCHANGED << now, fs, links, cfgvars, sinkvars, lockvars, pc, cur, log_files, histvars,
                    init_flag_, initialized_, enable_debug_, enable_console_, enable_file_,
                    registry, queue, streams, logged, body_runs, shutdowns >>

\* an effective Shutdown lies behind: Initialize has run with file output
\* (and so succeeded), and initialized_ is false again
AfterShutdown == init_flag_ = "done" /\ enable_file_ /\ ~initialized_

\* mutant: Logger::Log without the test of initialized_
LoggerLog_untested(t) ==
    /\ lpc[t] = "idle"
    /\ Len(logged) < MaxLogCalls
    /\ \E level \in LogLevels :
         LET cause == IF level = DEBUG /\ ~enable_debug_ THEN "debug_off" ELSE "pending"
         IN  /\ logged' = Append(logged, [level |-> level, accepted |-> FALSE, prefix |-> "",
                                          live |-> initialized_, after |-> AfterShutdown,
                                          cause |-> cause])
             /\ IF cause = "pending"
                  THEN /\ lpc' = [lpc EXCEPT ![t] = "post"]
                       /\ larg' = [larg EXCEPT ![t] = [after_shutdown |-> FALSE,
                                                       log |-> Len(logged) + 1]]
                  ELSE UNCHANGED << lpc, larg >>
    /\ UNCHANGED << now, fs, links, cfgvars, sinkvars, lockvars, pc, cur, log_files, histvars,
                    init_flag_, initialized_, enable_debug_, enable_console_, enable_file_,
                    registry, queue, streams, returns, body_runs, shutdowns >>

\* Logger::Log, the tests: dropped unless initialized_, a DEBUG message
\* dropped unless enable_debug_; otherwise the message is formatted
LoggerLog(t) ==
    /\ lpc[t] = "idle"
    /\ Len(logged) < MaxLogCalls
    /\ \E level \in LogLevels :
         LET cause == IF ~initialized_ THEN "uninitialized"
                      ELSE IF level = DEBUG /\ ~enable_debug_ THEN "debug_off"
                      ELSE "pending"
         IN  /\ logged' = Append(logged, [level |-> level, accepted |-> FALSE, prefix |-> "",
                                          live |-> initialized_, after |-> AfterShutdown,
                                          cause |-> cause])
             /\ IF cause = "pending"
                  THEN /\ lpc' = [lpc EXCEPT ![t] = "post"]
                       /\ larg' = [larg EXCEPT ![t] = [after_shutdown |-> FALSE,
                                                       log |-> Len(logged) + 1]]
                  ELSE UNCHANGED << lpc, larg >>
    /\ UNCHANGED << now, fs, links, cfgvars, sinkvars, lockvars, pc, cur, log_files, histvars,
                    init_flag_, initialized_, enable_debug_, enable_console_, enable_file_,
                    registry, queue, streams, returns, body_runs, shutdowns >>

\* Logger::Log, the hand-over: dropped when spdlog::get finds no logger;
\* logger->debug/info/warn/error, the async logger posts a message that its
\* level admits to the thread pool
LoggerPost(t) ==
    /\ lpc[t] = "post"
    /\ LET id == larg[t].log
           level == logged[id].level
           cause == IF registry = NoLogger THEN "no_logger"
                    ELSE IF level >= registry.level THEN "posted" ELSE "filtered"
       IN  /\ queue' = IF cause = "posted"
                         THEN Append(queue, [id |-> id, level |-> level,
                                             prefix |-> registry.prefix])
                         ELSE queue
           /\ logged' = [logged EXCEPT ![id].cause = cause,
                                       ![id].accepted = (cause = "posted"),
                                       ![id].prefix = IF cause = "posted"
                                                        THEN registry.prefix ELSE ""]
    /\ larg' = [larg EXCEPT ![t] = NoArg]
    /\ lpc' = [lpc EXCEPT ![t] = "idle"]
    /\ UNCHANGED << now, fs, links, cfgvars, sinkvars, lockvars, pc, cur, log_files, histvars,
                    init_flag_, initialized_, enable_debug_, enable_console_, enable_file_,
                    registry, streams, returns, body_runs, shutdowns >>

\* the thread pool's worker takes the next message and logs it to the sinks
Deliver ==
    /\ queue # << >>
    /\ streams' = deliver(streams, Head(queue))
    /\ queue' = Tail(queue)
    /\ UNCHANGED << now, fs, links, cfgvars, sinkvars, lockvars, pc, cur, log_files, histvars,
                    init_flag_, initialized_, enable_debug_, enable_console_, enable_file_,
                    registry, lpc, larg, returns, logged, body_runs, shutdowns >>

\* Logger::Shutdown: if initialized_, spdlog::shutdown() (the registry is
\* emptied, the thread pool works off its queue and ends) and the flag is cleared
Shutdown(t) ==
    /\ lpc[t] = "idle"
    /\ shutdowns < MaxShutdowns
    /\ IF initialized_
         THEN /\ streams' = drain(streams, queue)
              /\ queue' = << >>
              /\ registry' = NoLogger
              /\ initialized_' = FALSE
         ELSE UNCHANGED << streams, queue, registry, initialized_ >>
    /\ shutdowns' = shutdowns + 1
    /\ UNCHANGED << now, fs, links, cfgvars, sinkvars, lockvars, pc, cur, log_files, histvars,
                    init_flag_, enable_debug_, enable_console_, enable_file_,
                    lpc, larg, returns, logged, body_runs >>

NextLogger ==
    \/ \E t \in Threads : InitializeCall(t)
    \/ \E t \in Threads : CallOnce(t)
    \/ \E t \in Threads : InitializeBody(t)
    \/ \E t \in Threads : InitializeReturn(t)
    \/ \E t \in Threads : LoggerLog(t)
    \/ \E t \in Threads : LoggerPost(t)
    \/ Deliver
    \/ \E t \in Threads : Shutdown(t)

\* the Logger alone: the sinks stay as they are before construction
InitLogger ==
    /\ Init
    /\ fs = << >> /\ links = << >>
    /\ max_size_[1] = 3
    /\ max_total_size_[1] = 3

SpecLogger == InitLogger /\ [][NextLogger]_vars

\* ============================================================ claims
Occurrences(c, id) == Cardinality({i \in DOMAIN c : c[i] = id})

\* the bytes of message id lie in c as one block of n bytes
OneBlock(c, id, n) ==
    \E i \in 1..Len(c) : /\ i + n - 1 <= Len(c)
                         /\ \A j \in 1..Len(c) : (c[j] = id) <=> (i <= j /\ j < i + n)

\* the second in a stream file's name
CreatedAt(s, name) == CHOOSE d \in 0..9 : Digit[d + 1] = name[Len(log_type_[s]) + 2]

RECURSIVE ConcatFrom(_, _, _)
ConcatFrom(s, sec, fsys) ==
    IF sec > 9 THEN << >>
    ELSE LET here == {n \in Candidates(s, fsys) : CreatedAt(s, n) = sec}
         IN  (IF here = {} THEN << >> ELSE fsys[CHOOSE n \in here : TRUE].content)
             \o ConcatFrom(s, sec + 1, fsys)

\* the stream's files, concatenated in creation order
Concatenated(s) == ConcatFrom(s, 0, fs)

AllIdle == \A t \in Threads : pc[t] = "idle"
PosIn(seq, x) == CHOOSE i \in 1..Len(seq) : seq[i] = x
LargestMsg == CHOOSE m \in MsgSizes : \A x \in MsgSizes : x <= m
Rotations(s) == 2..Len(opens[s])

\* C1: when every sink_it call has returned and cleanup deleted nothing, the
\* stream's files concatenated in creation order hold every message exactly
\* once, whole: none lost, none duplicated.
C1_NoDataLoss ==
    \A s \in SinkIds :
        (built[s] = "ok" /\ AllIdle /\ deleted = {}) =>
            \A id \in DOMAIN calls :
                calls[id].sink = s => OneBlock(Concatenated(s), id, calls[id].size)

\* C1 witness: all calls returned, nothing deleted, the messages crossed
\* max_size and lie in two files, one of them created by a rotation
C1_Witness ==
    /\ AllIdle /\ deleted = {} /\ Len(calls) = MaxMsgs
    /\ \E k \in Rotations(1) : opens[1][k].created
    /\ \E a, b \in DOMAIN calls : calls[a].dest # calls[b].dest /\ calls[a].dest # NoName
                                  /\ calls[b].dest # NoName

\* C2: one rotation per exceedance creates exactly one new file, and the call
\* after a rotation does not rotate again when its message fits beside the
\* message that rotated.
C2_OneRotationPerExceedance ==
    /\ \A s \in SinkIds : \A k \in Rotations(s) : opens[s][k].created
    /\ \A id \in DOMAIN calls :
         (/\ id + 1 \in DOMAIN calls
          /\ calls[id].sink = calls[id + 1].sink
          /\ calls[id].rotated /\ calls[id].state = "written"
          /\ calls[id].size + calls[id + 1].size <= max_size_[calls[id].sink])
         => ~calls[id + 1].rotated

\* C3: a message that does not fit into the file that is current when its
\* call starts is written to a path that held no file before the call.
C3_RotationTrigger ==
    \A id \in DOMAIN calls :
        (/\ calls[id].state = "written"
         /\ calls[id].start_size + calls[id].size > max_size_[calls[id].sink])
        => /\ calls[id].dest \notin calls[id].start_files
           /\ calls[id].dest # calls[id].start_file

\* the files a sink opened and a rotation has replaced as the current file
Superseded(s) == ({opens[s][k].name : k \in DOMAIN opens[s]} \ {file_helper_[s].filename})
                    \cap DOMAIN fs

\* C4: a file superseded by a rotation is no larger than max_size plus one message.
C4_FileSizeBound ==
    \A s \in SinkIds : \A f \in Superseded(s) :
        FileSize(fs, f) <= max_size_[s] + LargestMsg

\* a cleanup of sink s has just completed: the constructor's, before any
\* call, or a rotation's, before the rotating call goes on
AfterCleanup(s) ==
    /\ built[s] = "ok"
    /\ \/ \A id \in DOMAIN calls : calls[id].sink # s
       \/ \E t \in Threads : tsink[t] = s /\ pc[t] = "stamp" /\ calls[cur[t]].rotated

\* C5: after every cleanup the retained files of the stream sum up to at most
\* max_total_size, unless only the open file remains.
C5_RetentionBudget ==
    \A s \in SinkIds :
        AfterCleanup(s) =>
            \/ SumSizes(Candidates(s, fs), fs) <= max_total_size_[s]
            \/ Candidates(s, fs) = {file_helper_[s].filename}

\* C6: the file a sink has open is never deleted by its retention cleanup.
C6_OpenFileSurvives ==
    \A s \in SinkIds :
        (built[s] = "ok" /\ file_helper_[s].fd) =>
            /\ file_helper_[s].filename \in DOMAIN fs
            /\ file_helper_[s].filename \notin deleted

\* C6 witness: with a budget of 0 a cleanup has deleted a file, the open
\* file came first in its sorted list, and is still there
C6_Witness ==
    /\ max_total_size_[1] = 0 /\ deleted # {}
    /\ \E t \in Threads : /\ pc[t] = "prune" /\ Len(log_files[t]) >= 2
                          /\ log_files[t][1] = file_helper_[1].filename
                          /\ FileSize(fs, log_files[t][2]) > 0
    /\ file_helper_[1].filename \in DOMAIN fs

\* the alias of sink s resolves to the file the sink has open, the most
\* recently created file of the stream
AliasResolves(s) ==
    /\ symlink_name(s) \in DOMAIN links
    /\ links[symlink_name(s)] = file_helper_[s].filename
    /\ file_helper_[s].filename \in DOMAIN fs
    /\ \A n \in Candidates(s, fs) : CreatedAt(s, n) <= CreatedAt(s, file_helper_[s].filename)

\* construction or the last rotation of sink s is complete as far as the alias goes
AliasSettled(s) ==
    /\ built[s] = "ok" /\ file_helper_[s].fd
    /\ \A t \in Threads : tsink[t] = s => pc[t] # "symlink"

\* C7 as stated: after construction and after every rotation the alias
\* resolves to the open file.
C7_AliasCorrect == \A s \in SinkIds : AliasSettled(s) => AliasResolves(s)

\* C7 amended: after construction and after every rotation whose alias update
\* did not fail, the alias resolves to the open file, the most recently
\* created file of the stream.
C7_AliasCorrectUnlessFailed ==
    \A s \in SinkIds : (AliasSettled(s) /\ "alias" \notin failed[s]) => AliasResolves(s)

\* C7 witness: a rotation created a new file and the alias, which named another
\* file before, resolves to it
C7_Witness ==
    /\ AllIdle /\ AliasSettled(1) /\ AliasResolves(1) /\ failed[1] = {}
    /\ \E k \in Rotations(1) : opens[1][k].created /\ opens[1][k].name = file_helper_[1].filename

\* a thread is between file_helper_.close() and file_helper_.open() of sink s,
\* holding the rotation lock
Closing(s) == \E t \in Threads : tsink[t] = s /\ pc[t] = "open" /\ rotation_mutex_[s] = t

\* C8 as stated: a built sink has its file open, except while a thread holding
\* the rotation lock is between close and open.
C8_OneOpenFile ==
    \A s \in SinkIds : (built[s] = "ok" /\ ~file_helper_[s].fd) => Closing(s)

\* C8 amended: a built sink has its file open, except while a thread holding
\* the rotation lock is between close and open, or after the open of a
\* rotation has failed.
C8_OneOpenFileUnlessOpenFailed ==
    \A s \in SinkIds :
        (built[s] = "ok" /\ ~file_helper_[s].fd) => (Closing(s) \/ "open" \in failed[s])

\* C8 witness: the sink is CLOSING under the rotation lock
C8_Witness == built[1] = "ok" /\ ~file_helper_[1].fd /\ Closing(1) /\ failed[1] = {}

\* C9: every message written lies in exactly one file, as one block of all its
\* bytes, in the file its write went to; no other file holds a byte of it.
C9_NoSplit ==
    \A id \in DOMAIN calls :
        calls[id].state = "written" =>
            /\ \A f \in DOMAIN fs : id \in Range(fs[f].content) => f = calls[id].dest
            /\ calls[id].dest \in DOMAIN fs =>
                 OneBlock(fs[calls[id].dest].content, id, calls[id].size)

\* C9 witness: a message of two bytes that forced a rotation lies whole in
\* the new file while the old file is still there
C9_Witness ==
    \E id \in DOMAIN calls :
        /\ calls[id].state = "written" /\ calls[id].rotated /\ calls[id].size = 2
        /\ calls[id].dest \in DOMAIN fs /\ calls[id].dest # calls[id].start_file
        /\ calls[id].start_file \in DOMAIN fs
        /\ OneBlock(fs[calls[id].dest].content, id, 2)

\* the file holding bytes of message id, if there still is one
Holder(id) == {f \in DOMAIN fs : id \in Range(fs[f].content)}

\* C10: within a file messages lie in the order of their writes; a message
\* written earlier is never in a younger file than a message written later;
\* every message is in the file that was opened last before its write, the
\* message that caused a rotation being in the file that rotation opened.
C10_OrderAcrossRotation ==
    /\ \A f \in DOMAIN fs : \A i, j \in DOMAIN fs[f].content :
         (i < j /\ fs[f].content[i] # fs[f].content[j]) =>
            /\ fs[f].content[j] # 0
            /\ fs[f].content[i] # 0 =>
                 PosIn(wrote, fs[f].content[i]) < PosIn(wrote, fs[f].content[j])
    /\ \A a, b \in Range(wrote) :
         (calls[a].sink = calls[b].sink /\ PosIn(wrote, a) < PosIn(wrote, b)) =>
            \A fa \in Holder(a), fb \in Holder(b) :
                CreatedAt(calls[a].sink, fa) <= CreatedAt(calls[a].sink, fb)
    /\ \A id \in Range(wrote) :
         LET o == opens[calls[id].sink][calls[id].epoch]
         IN  /\ Holder(id) \subseteq {o.name}
             /\ calls[id].rotated => o.by = id

\* C10 witness: a message was written to the old file, the next one caused a
\* rotation into a new file, and a third one followed it there
C10_Witness ==
    \E a, b, c \in DOMAIN calls :
        /\ a < b /\ b < c
        /\ calls[a].state = "written" /\ calls[b].state = "written" /\ calls[c].state = "written"
        /\ calls[b].rotated /\ ~calls[c].rotated
        /\ Holder(a) # {} /\ Holder(b) # {} /\ Holder(a) # Holder(b) /\ Holder(c) = Holder(b)

\* C15 as stated: an Initialize call made after a Shutdown, with file output
\* enabled, returns true and leaves a registered logger behind it.
C15_ReinitializeAfterShutdown ==
    \A t \in Threads :
        (lpc[t] = "return" /\ larg[t].after_shutdown /\ enable_file_)
            => (initialized_ /\ registry # NoLogger)

LabelLevel(tag) ==
    CASE tag = "INFO" -> LINFO
      [] tag = "WARN" -> WARN
      [] tag = "ERROR" -> ERROR

\* message id was accepted by the logger and the thread pool has delivered it
Delivered(id) ==
    logged[id].accepted /\ \A i \in DOMAIN queue : queue[i].id # id

\* C17 as stated: a delivered message is in a stream iff its level is at or
\* above the level of the stream's label.
C17_StreamPartition ==
    \A id \in DOMAIN logged : Delivered(id) =>
        \A tag \in StreamTags :
            (id \in streams[<< logged[id].prefix, tag >>]) <=> (logged[id].level >= LabelLevel(tag))

\* C17 amended: the INFO stream receives every message the logger accepts
\* (DEBUG messages too, which it accepts when debug is enabled), the WARN
\* stream exactly the WARN and ERROR messages, the ERROR stream exactly the
\* ERROR messages; a message the logger drops is in no stream.
C17_StreamPartitionInfoTakesAll ==
    \A id \in DOMAIN logged :
        /\ Delivered(id) =>
             /\ id \in streams[<< logged[id].prefix, "INFO" >>]
             /\ (id \in streams[<< logged[id].prefix, "WARN" >>]) <=> (logged[id].level >= WARN)
             /\ (id \in streams[<< logged[id].prefix, "ERROR" >>]) <=> (logged[id].level >= ERROR)
        /\ \A x \in DOMAIN streams :
             (id \in streams[x]) => (logged[id].accepted /\ x[1] = logged[id].prefix)
        /\ (logged[id].level = DEBUG /\ logged[id].accepted) => enable_debug_

\* C17 witness: a WARN message has been delivered to the INFO and the WARN
\* stream and not to the ERROR stream
C17_Witness ==
    \E id \in DOMAIN logged :
        /\ Delivered(id) /\ logged[id].level = WARN
        /\ id \in streams[<< logged[id].prefix, "INFO" >>]
        /\ id \in streams[<< logged[id].prefix, "WARN" >>]
        /\ id \notin streams[<< logged[id].prefix, "ERROR" >>]

\* C11: a failed open is not swallowed and its message is written nowhere: the
\* call in which file_helper_.open failed ended by the exception, its message
\* is in no file and was never written; every open failure of a built sink
\* belongs to such a call; a failed open in the constructor leaves no sink.
C11_OpenFailurePropagates ==
    /\ \A id \in DOMAIN calls :
         calls[id].error = "open" =>
            /\ calls[id].state = "threw"
            /\ id \notin Range(wrote)
            /\ \A f \in DOMAIN fs : id \notin Range(fs[f].content)
    /\ \A s \in SinkIds :
         /\ ("open" \in failed[s] /\ built[s] = "ok") =>
               \E id \in DOMAIN calls : calls[id].sink = s /\ calls[id].error = "open"
         /\ built[s] = "failed" =>
               (~file_helper_[s].fd /\ \A id \in DOMAIN calls : calls[id].sink # s)

\* C11 witness: the open of a rotation has failed, the call has ended by the
\* exception and released both locks, and the old file is still on disk
C11_Witness ==
    \E id \in DOMAIN calls :
        /\ calls[id].error = "open" /\ calls[id].state = "threw"
        /\ AllIdle /\ rotation_mutex_[1] = NoThread /\ mutex_[1] = NoThread
        /\ calls[id].start_file \in DOMAIN fs

\* C13: a call whose alias update failed does not end by an exception: it
\* goes on to the cleanup and writes its message, whole, to the file its
\* rotation opened; a constructor whose alias update failed completes.
C13_AliasFailureContained ==
    /\ \A id \in DOMAIN calls :
         calls[id].error = "alias" =>
            /\ calls[id].state \in {"sinking", "written"}
            /\ calls[id].state = "sinking" => \E t \in Threads : cur[t] = id
            /\ calls[id].state = "written" =>
                 /\ calls[id].cleaned
                 /\ calls[id].dest = opens[calls[id].sink][calls[id].epoch].name
                 /\ opens[calls[id].sink][calls[id].epoch].by = id
                 /\ calls[id].dest \in DOMAIN fs =>
                      OneBlock(fs[calls[id].dest].content, id, calls[id].size)
    /\ \A s \in SinkIds :
         ("alias" \in failed[s] /\ "open" \notin failed[s]) =>
            (built[s] = "ok" /\ (file_helper_[s].fd \/ Closing(s)))

\* C13 witness: the alias update of a rotation failed, the cleanup ran, the
\* message is in the new file and the alias does not resolve to it
C13_Witness ==
    \E id \in DOMAIN calls :
        /\ calls[id].error = "alias" /\ calls[id].state = "written" /\ calls[id].cleaned
        /\ calls[id].dest = file_helper_[1].filename /\ calls[id].dest # calls[id].start_file
        /\ AllIdle /\ ~AliasResolves(1)

\* C12 as stated: a call whose cleanup met a file system failure (listing,
\* reading a size or a modification time, deleting) does not end by an
\* exception and has written its message when it returns; no such failure
\* makes the constructor fail.
C12_CleanupFailureContained ==
    /\ \A id \in DOMAIN calls :
         calls[id].error \in {"list", "stat", "remove"} =>
            /\ calls[id].state # "threw"
            /\ (\A t \in Threads : cur[t] # id) => calls[id].state = "written"
    /\ \A s \in SinkIds : built[s] # "failed"

\* C14: a flush changes neither the open file's identity nor the size counter,
\* the last-check time, the alias, the rotation lock or the set of files on
\* disk, whatever the size of the file and the time since the last check.
C14_FlushFrame ==
    [][\A t \in Threads :
         (pc[t] = "flush" /\ pc'[t] # "flush") =>
            /\ file_helper_' = file_helper_
            /\ current_size_' = current_size_
            /\ last_rotation_check_' = last_rotation_check_
            /\ links' = links
            /\ DOMAIN fs' = DOMAIN fs
            /\ rotation_mutex_' = rotation_mutex_
            /\ opens' = opens /\ deleted' = deleted]_vars

\* C14 witness: a flush is under way on a file that is over max_size, the
\* check interval having elapsed
C14_Witness ==
    \E t \in Threads :
        /\ pc[t] = "flush"
        /\ file_helper_size(tsink[t]) > max_size_[tsink[t]]
        /\ should_check_rotation(tsink[t])

\* a thread is inside the rotation of its call (between the decision under
\* the lock and the end of the cleanup)
Rotating(t) == pc[t] \in {"close", "open", "symlink", "cleanup", "prune"}

\* C18: a rotation happens only in a call for which the size of the current
\* file plus the message exceeds max_size, and only under the rotation lock;
\* a call that entered the slow path because of the counter or the interval
\* while the file has room does not rotate.
C18_NoSpuriousRotation ==
    /\ \A id \in DOMAIN calls :
         calls[id].rotated =>
            calls[id].start_size + calls[id].size > max_size_[calls[id].sink]
    /\ \A t \in Threads :
         Rotating(t) =>
            /\ rotation_mutex_[tsink[t]] = t
            /\ calls[cur[t]].start_size + calls[cur[t]].size > max_size_[tsink[t]]

\* C18 witness: a call found the counter over max_size while the file had
\* room (the counter over-estimates), took the slow path, did not rotate and
\* has written its message
C18_Witness ==
    \E id \in DOMAIN calls :
        /\ calls[id].path = "size" /\ ~calls[id].rotated /\ calls[id].state = "written"
        /\ calls[id].start_size + calls[id].size <= max_size_[calls[id].sink]
        /\ \E other \in DOMAIN calls : calls[other].rotated

\* the counter plus the message of thread t's call fits into max_size
Fits(t) == current_size_[tsink[t]] + calls[cur[t]].size <= max_size_[tsink[t]]

\* the size of the open file plus the message of thread t's call exceeds max_size
TrueSizeExceeds(t) == file_helper_size(tsink[t]) + calls[cur[t]].size > max_size_[tsink[t]]

\* C19: a call whose message fits by the counter while the check interval has
\* elapsed goes for the rotation lock; under the lock it rotates iff the
\* file's size plus the message exceeds max_size and otherwise sets the
\* counter to the file's size; leaving the slow path it sets the last-check
\* time to now; a call within the interval whose message fits by the counter
\* goes straight to the write.
C19_ThrottledCorrection ==
    [][\A t \in Threads :
         /\ (pc[t] = "check" /\ pc'[t] # "check" /\ Fits(t) /\ should_check_rotation(tsink[t]))
               => pc'[t] = "lock"
         /\ (pc[t] = "lock" /\ pc'[t] # "lock")
               => (pc'[t] = "recheck" /\ rotation_mutex_'[tsink[t]] = t)
         /\ (pc[t] = "recheck" /\ pc'[t] # "recheck")
               => IF TrueSizeExceeds(t)
                    THEN pc'[t] = "close"
                    ELSE /\ pc'[t] = "stamp"
                         /\ current_size_'[tsink[t]] = file_helper_size(tsink[t])
                         /\ file_helper_' = file_helper_ /\ fs' = fs
         /\ (pc[t] = "stamp" /\ pc'[t] # "stamp")
               => (pc'[t] = "write" /\ last_rotation_check_'[tsink[t]] = now
                   /\ rotation_mutex_'[tsink[t]] = NoThread)
         /\ (pc[t] = "check" /\ pc'[t] # "check" /\ Fits(t)
             /\ now - last_rotation_check_[tsink[t]] < TicksPerSec)
               => pc'[t] = "write"]_vars

\* C19 witness: a call entered the slow path by the interval alone, found the
\* counter below the file's size, corrected it without rotating, and the check
\* time is now
C19_Witness ==
    \E t \in Threads :
        /\ pc[t] = "write" /\ calls[cur[t]].path = "interval" /\ ~calls[cur[t]].rotated
        /\ current_size_[tsink[t]] = file_helper_size(tsink[t])
        /\ current_size_[tsink[t]] > 0
        /\ last_rotation_check_[tsink[t]] = now
        /\ \E id \in DOMAIN calls : calls[id].path = "fast" /\ calls[id].state = "written"

\* C20: a fast-path call goes from the check to the write without touching
\* anything, and its write changes only the open file's content (the message
\* appended) and the counter (plus the message size): no lock, no rotation, no
\* alias update, no cleanup; a file disappears only in a step of the
\* constructor or of the cleanup inside a rotation.
C20_FastPathFrame ==
    [][/\ \A t \in Threads :
            /\ (pc[t] = "check" /\ pc'[t] = "write") =>
                  UNCHANGED << fs, links, sinkvars, lockvars, opens, wrote, deleted >>
            /\ (pc[t] = "write" /\ pc'[t] = "idle" /\ calls[cur[t]].path = "fast") =>
                  LET s == tsink[t]
                      f == file_helper_[s].filename
                  IN  /\ DOMAIN fs' = DOMAIN fs
                      /\ \A g \in DOMAIN fs : g # f => fs'[g] = fs[g]
                      /\ fs'[f].content = fs[f].content \o Bytes(cur[t], calls[cur[t]].size)
                      /\ current_size_'[s] = current_size_[s] + calls[cur[t]].size
                      /\ UNCHANGED << links, built, file_helper_, last_rotation_check_,
                                      rotation_mutex_, cleanup_mutex, opens, deleted >>
                      /\ ~calls'[cur[t]].rotated /\ ~calls'[cur[t]].cleaned
       /\ ~(DOMAIN fs \subseteq DOMAIN fs') =>
            \/ \E s \in SinkIds : built[s] = "unbuilt" /\ built'[s] = "ok"
            \/ \E t \in Threads : pc[t] = "prune" /\ pc'[t] = "stamp" /\ calls[cur[t]].rotated]_vars

\* C20 witness: a fast-path call has written its message while the stream
\* has more than one file and a cleanup has deleted a file before
C20_Witness ==
    \E id \in DOMAIN calls :
        /\ calls[id].path = "fast" /\ calls[id].state = "written"
        /\ deleted # {}
        /\ Cardinality(Candidates(calls[id].sink, fs)) > 1

\* the messages written to file f of sink s while the k-th open of the sink
\* was the latest
WrittenAt(s, f, k) ==
    {id \in DOMAIN calls : calls[id].sink = s /\ calls[id].state = "written"
                           /\ calls[id].dest = f /\ calls[id].epoch = k}

\* the k-th open of sink s met a file already at the path it built
Collision(s, k) == k \in Rotations(s) /\ ~opens[s][k].created

\* C21 as stated: after a rotation that built the path of an existing file,
\* the file holds only what was written after that rotation.
C21_SameSecondOverwrites ==
    \A s \in SinkIds : \A k \in DOMAIN opens[s] :
        (Collision(s, k) /\ opens[s][k].name \in DOMAIN fs) =>
            \A id \in Range(fs[opens[s][k].name].content) :
                id # 0 /\ calls[id].epoch >= k

\* C21 amended: a rotation in the second of the file's creation builds the
\* same path and reopens the file without truncating it: the file keeps every
\* message written to it before the rotation, followed by those written after.
C21_SameSecondAppends ==
    \A s \in SinkIds : \A k \in DOMAIN opens[s] :
        Collision(s, k) =>
            /\ opens[s][k].name = opens[s][k - 1].name
            /\ opens[s][k].name \in DOMAIN fs =>
                 LET c == fs[opens[s][k].name].content IN
                 /\ \A j \in 1..(k - 1) : \A id \in WrittenAt(s, opens[s][k].name, j) :
                        OneBlock(c, id, calls[id].size)
                 /\ \A a, b \in Range(c) :
                        (a # 0 /\ b # 0 /\ calls[a].epoch < calls[b].epoch) =>
                            \A i, j \in DOMAIN c : (c[i] = a /\ c[j] = b) => i < j

\* C21 witness: a rotation fell in the second of the file's creation and the
\* file holds a message written before it and one written after it
C21_Witness ==
    \E k \in DOMAIN opens[1] :
        /\ Collision(1, k) /\ opens[1][k].name \in DOMAIN fs
        /\ \E j \in 1..(k - 1) : WrittenAt(1, opens[1][k].name, j) # {}
        /\ WrittenAt(1, opens[1][k].name, k) # {}

\* C22 as stated: the file a sink has open is on disk, whichever sink's
\* cleanup has run, also with base filenames of which one contains the other.
C22_NoOpenFileDeleted ==
    \A s1, s2 \in SinkIds :
        (built[s1] = "ok" /\ built[s2] = "ok" /\ file_helper_[s2].fd) =>
            file_helper_[s2].filename \in DOMAIN fs

\* the files among the first k of the sorted candidates that are not the open file
PrefixDeletable(files, k, curr_path) == {files[i] : i \in {j \in 1..k : files[j] # curr_path}}

\* what a cleanup without failures is to delete: the shortest such prefix that
\* brings the total within the budget, else all but the last
ExpectedDeleted(files, fsys, curr_path, max_total) ==
    IF Len(files) <= 1 THEN {}
    ELSE LET total == SumSizes(Range(files), fsys)
             ks == {k \in 0..(Len(files) - 1) :
                      total - SumSizes(PrefixDeletable(files, k, curr_path), fsys) <= max_total}
             k == IF ks = {} THEN Len(files) - 1
                  ELSE CHOOSE x \in ks : \A y \in ks : x <= y
         IN  PrefixDeletable(files, k, curr_path)

\* the consequences C23 draws: nothing older and not open is kept, nothing is
\* deleted within the budget
PrunedOldestFirst(files, fsys, curr_path, max_total, gone) ==
    /\ \A d \in gone : \A f \in Range(files) :
         (f # curr_path /\ fsys[f].mtime < fsys[d].mtime) => f \in gone
    /\ SumSizes(Range(files), fsys) <= max_total => gone = {}

\* C23: every cleanup without failures, on rotation and at construction,
\* deletes exactly the shortest prefix of the candidates in ascending
\* modification order (the open file skipped) that brings the total within
\* max_total_size, or all candidates but the last if there is none; so no file
\* goes while an older non-open one stays, and nothing goes within the budget.
C23_OldestFirstMinimal ==
    [][ /\ \A t \in Threads : (pc[t] = "prune" /\ pc'[t] = "stamp") =>
             LET s == tsink[t]
                 gone == DOMAIN fs \ DOMAIN fs'
             IN  /\ gone = ExpectedDeleted(log_files[t], fs, file_helper_[s].filename,
                                           max_total_size_[s])
                 /\ PrunedOldestFirst(log_files[t], fs, file_helper_[s].filename,
                                      max_total_size_[s], gone)
        /\ \A s \in SinkIds : (built[s] = "unbuilt" /\ built'[s] = "ok") =>
             LET curr == file_helper_'[s].filename
                 fs1 == file_helper_open(fs, curr, open_truncate, now)
                 gone == DOMAIN fs1 \ DOMAIN fs'
             IN  \E order \in SortedByMtime(Candidates(s, fs1), fs1) :
                    /\ gone = ExpectedDeleted(order, fs1, curr, max_total_size_[s])
                    /\ PrunedOldestFirst(order, fs1, curr, max_total_size_[s], gone)
      ]_vars

\* a rotation's cleanup has just deleted a file that was there when the call
\* began and has kept two candidates, a closed one among them
C23_Witness ==
    \E t \in Threads :
        /\ pc[t] = "stamp"
        /\ calls[cur[t]].cleaned
        /\ calls[cur[t]].start_files \ DOMAIN fs # {}
        /\ Cardinality(Candidates(tsink[t], fs)) >= 2
        /\ max_total_size_[tsink[t]] > 0

\* the files among the first k of the sorted candidates whose removal is
\* attempted and succeeds
PrefixRemovable(files, k, curr_path, locked) ==
    PrefixDeletable(files, k, curr_path) \ locked

\* what a cleanup is to delete when remove() fails for the files in locked
\* and the loop goes on after each failure
ExpectedDeletedSkipping(files, fsys, curr_path, max_total, locked) ==
    IF Len(files) <= 1 THEN {}
    ELSE LET total == SumSizes(Range(files), fsys)
             ks == {k \in 0..(Len(files) - 1) :
                      total - SumSizes(PrefixRemovable(files, k, curr_path, locked), fsys)
                        <= max_total}
             k == IF ks = {} THEN Len(files) - 1
                  ELSE CHOOSE x \in ks : \A y \in ks : x <= y
         IN  PrefixRemovable(files, k, curr_path, locked)

\* a cleanup step of thread t in which a remove() failed
RemoveFailedStep(t) ==
    /\ pc[t] = "prune"
    /\ pc'[t] = "stamp"
    /\ calls'[cur[t]].error = "remove"

\* a cleanup step of thread t in which the directory listing failed
ListFailedStep(t) ==
    /\ pc[t] = "cleanup"
    /\ pc'[t] = "stamp"

\* C24 as stated: after a failed listing nothing is deleted, and after the
\* first failed remove() no later candidate of that run is deleted.
C24_StopsAtFirstError ==
    [][ \A t \in Threads :
          /\ ListFailedStep(t) => fs' = fs
          /\ RemoveFailedStep(t) =>
               \A i, j \in 1..Len(log_files[t]) :
                   (i < j /\ log_files[t][i] \in calls'[cur[t]].locked) =>
                       log_files[t][j] \in DOMAIN fs'
      ]_vars

\* C24, amended: a failed listing ends the cleanup with nothing deleted; a
\* failed remove() is skipped, the file and its size stay, and the loop goes
\* on with the next candidates exactly as it would for a file it must keep.
C24_SkipsFailedRemove ==
    [][ \A t \in Threads :
          /\ ListFailedStep(t) => fs' = fs
          /\ RemoveFailedStep(t) =>
               LET s == tsink[t]
                   locked == calls'[cur[t]].locked
               IN  /\ locked \subseteq DOMAIN fs'
                   /\ DOMAIN fs \ DOMAIN fs' =
                        ExpectedDeletedSkipping(log_files[t], fs, file_helper_[s].filename,
                                                max_total_size_[s], locked)
                   /\ \A f \in DOMAIN fs' : fs'[f] = fs[f]
      ]_vars

\* a cleanup in which a remove() failed has gone on and deleted a file that
\* was there when the call began, the file it could not remove is still there
C24_Witness ==
    \E t \in Threads :
        /\ pc[t] = "stamp"
        /\ calls[cur[t]].error = "remove"
        /\ calls[cur[t]].locked # {}
        /\ calls[cur[t]].locked \subseteq DOMAIN fs
        /\ (calls[cur[t]].start_files \ DOMAIN fs) \ calls[cur[t]].locked # {}

\* C25: a cleanup that finds at most one file matching the stream's pattern
\* deletes nothing and changes no file, on rotation and at construction,
\* whatever the file's size and the budget.
C25_SoleFileKept ==
    [][ /\ \A t \in Threads :
             (pc[t] = "prune" /\ pc'[t] = "stamp" /\ Len(log_files[t]) <= 1) => fs' = fs
        /\ \A s \in SinkIds : (built[s] = "unbuilt" /\ built'[s] = "ok") =>
             LET fs1 == file_helper_open(fs, file_helper_'[s].filename, open_truncate, now)
             IN  Cardinality(Candidates(s, fs1)) <= 1 => fs' = fs1
      ]_vars

\* a rotation's cleanup has run with the open file as the only file of the
\* stream, larger than max_total_size, and the file is still there
C25_Witness ==
    \E t \in Threads :
        LET s == tsink[t]
            f == file_helper_[s].filename
        IN  /\ pc[t] = "stamp"
            /\ calls[cur[t]].cleaned
            /\ calls[cur[t]].start_files = {f}
            /\ deleted = {}
            /\ Candidates(s, fs) = {f}
            /\ FileSize(fs, f) > max_total_size_[s]

\* the threads inside cleanup_old_files, between the directory scan and the
\* end of the deletions
InCleanup == {t \in Threads : pc[t] = "prune"}

\* C26: with two sinks rotating on different threads, at most one thread is
\* inside cleanup_old_files at any time, and it is the holder of cleanup_mutex.
C26_CleanupSerialized ==
    /\ Cardinality(InCleanup) <= 1
    /\ \A t \in InCleanup : cleanup_mutex = t
    /\ cleanup_mutex # NoThread => cleanup_mutex \in InCleanup

\* one sink's thread is inside cleanup_old_files while a thread of the other
\* sink, holding that sink's rotation lock, waits to enter it
C26_Witness ==
    \E t1, t2 \in Threads :
        /\ tsink[t1] # tsink[t2]
        /\ pc[t1] = "prune"
        /\ pc[t2] = "cleanup"
        /\ rotation_mutex_[tsink[t1]] = t1
        /\ rotation_mutex_[tsink[t2]] = t2

\* the threads that are at a step which uses the file handle of sink s: the
\* size read of the recheck, the write, the flush
UsesHandle(s) == {t \in Threads : tsink[t] = s /\ pc[t] \in {"recheck", "write", "flush"}}

\* C27: after construction the file handle of a sink changes only in a step
\* of the thread that holds the sink's rotation lock: its close, its reopen,
\* or a reopen that fails; while that thread is between close and reopen no
\* other thread is at a write, a size read or a flush of that sink, and none
\* of them takes a step.
C27_HandleUnderRotationLock ==
    [][ \A s \in SinkIds :
          /\ (built[s] = "ok" /\ built'[s] = "ok" /\ file_helper_'[s] # file_helper_[s]) =>
                \E t \in Threads :
                    /\ tsink[t] = s
                    /\ rotation_mutex_[s] = t
                    /\ \/ pc[t] = "close" /\ pc'[t] = "open" /\ ~file_helper_'[s].fd
                       \/ pc[t] = "open" /\ pc'[t] = "symlink" /\ file_helper_'[s].fd
                       \/ pc[t] = "open" /\ pc'[t] = "idle" /\ ~file_helper_'[s].fd
          /\ \A t \in Threads :
                (tsink[t] = s /\ pc[t] = "open") =>
                    /\ rotation_mutex_[s] = t
                    /\ ~file_helper_[s].fd
                    /\ UsesHandle(s) = {}
                    /\ \A u \in Threads \ {t} : tsink[u] = s => pc'[u] = pc[u]
          /\ (built[s] = "ok" /\ ~file_helper_[s].fd /\ "open" \notin failed[s]) =>
                \E t \in Threads : tsink[t] = s /\ pc[t] = "open"
      ]_vars

\* the handle of a sink that has written messages is closed by the holder of
\* the rotation lock while another thread of the sink is outside every call
C27_Witness ==
    \E t, u \in Threads :
        /\ t # u
        /\ tsink[t] = 1
        /\ tsink[u] = 1
        /\ built[1] = "ok"
        /\ ~file_helper_[1].fd
        /\ rotation_mutex_[1] = t
        /\ pc[t] = "open"
        /\ pc[u] = "idle"
        /\ wrote # << >>

\* the locks thread t holds
Held(t) ==
    {<<"mutex_", s>> : s \in {x \in SinkIds : mutex_[x] = t}}
      \cup {<<"rotation_mutex_", s>> : s \in {x \in SinkIds : rotation_mutex_[x] = t}}
      \cup (IF cleanup_mutex = t THEN {<<"cleanup_mutex", 0>>} ELSE {})

\* the locks are nested: rotation lock inside the write lock of the same
\* sink, cleanup lock inside the rotation lock; outside a call none is held
LockOrder ==
    \A t \in Threads :
        /\ \A s \in SinkIds : mutex_[s] = t => s = tsink[t]
        /\ \A s \in SinkIds : rotation_mutex_[s] = t => mutex_[s] = t
        /\ cleanup_mutex = t => rotation_mutex_[tsink[t]] = t
        /\ pc[t] = "idle" => Held(t) = {}

\* C28: the locks are taken in the order write lock, rotation lock of the
\* same sink, cleanup lock, and none is held outside a call; under fair
\* scheduling every sink_it_ and flush call that has begun comes to its end.
C28_NoDeadlock ==
    /\ [] LockOrder
    /\ \A t \in Threads : (pc[t] # "idle") ~> (pc[t] = "idle")

\* every message has been written and all threads are back outside their
\* calls with no lock held, after rotations on both sinks
C28_Witness ==
    /\ \A t \in Threads : pc[t] = "idle" /\ Held(t) = {}
    /\ Len(calls) = MaxMsgs
    /\ \A id \in DOMAIN calls : calls[id].state = "written"
    /\ \A s \in SinkIds : \E id \in DOMAIN calls : calls[id].sink = s /\ calls[id].cleaned

\* the files that are the open file of a built sink
CurrentFiles == {file_helper_[s].filename : s \in {x \in SinkIds : built[x] = "ok"}}

\* thread t completes its write to file f in this step
WritesTo(t, f) ==
    /\ pc[t] = "write"
    /\ pc'[t] = "idle"
    /\ file_helper_[tsink[t]].fd
    /\ file_helper_[tsink[t]].filename = f

\* C29: in every step every file that stays on disk keeps what it held as a
\* prefix of its content, so no size decreases and nothing is truncated or
\* rewritten; a file changes only by the write of a call to the sink whose
\* open file it is at that moment; a file that no sink has open does not
\* change at all until a cleanup deletes it.
C29_AppendOnly ==
    [][ /\ \A f \in DOMAIN fs \cap DOMAIN fs' :
             /\ IsPrefix(fs[f].content, fs'[f].content)
             /\ fs'[f] # fs[f] => \E t \in Threads : WritesTo(t, f)
             /\ f \notin CurrentFiles => fs'[f] = fs[f]
        /\ \A f \in DOMAIN fs \ DOMAIN fs' :
             \/ \E t \in Threads : pc[t] = "prune" /\ pc'[t] = "stamp"
             \/ \E s \in SinkIds : built[s] = "unbuilt" /\ built'[s] = "ok"
      ]_vars

\* a rotation has replaced a file that holds messages, and messages have been
\* written to the new file since
C29_Witness ==
    /\ AllIdle
    /\ \E f \in Superseded(1) : \E id \in DOMAIN calls :
         calls[id].dest = f /\ id \in Range(fs[f].content)
    /\ \E id \in DOMAIN calls : calls[id].dest = file_helper_[1].filename
    /\ FileSize(fs, file_helper_[1].filename) > 0

\* the number of entries of the thread pool's queue that carry message id
Queued(id) == Cardinality({i \in DOMAIN queue : queue[i].id = id})

\* message id has reached no sink and waits in no queue
Nowhere(id) == Queued(id) = 0 /\ \A x \in DOMAIN streams : id \notin streams[x]

\* C30: a Log call is dropped, reaching no queue and no sink, exactly when
\* the logger is not initialized at the call (never initialized, failed
\* Initialize, or after Shutdown), when the level is DEBUG and debug was
\* disabled at Initialize, or when a Shutdown has emptied the registry before
\* the call's hand-over; every other call hands its message over exactly
\* once: it is once in the queue, or delivered and no longer queued.
C30_LogDropConditions ==
    /\ initialized_ <=> registry # NoLogger
    /\ AfterShutdown => shutdowns >= 1
    /\ \A id \in DOMAIN logged :
         LET r == logged[id] IN
         /\ r.cause = "uninitialized" <=> ~r.live
         /\ r.after => r.cause = "uninitialized"
         /\ r.cause = "debug_off" <=> (r.live /\ r.level = DEBUG /\ ~enable_debug_)
         /\ r.cause = "no_logger" => (shutdowns >= 1 /\ AfterShutdown)
         /\ r.cause # "filtered"
         /\ r.cause = "pending" <=> \E t \in Threads : lpc[t] = "post" /\ larg[t].log = id
         /\ r.cause # "posted" => Nowhere(id)
         /\ r.cause = "posted" =>
              \/ Queued(id) = 1 /\ \A x \in DOMAIN streams : id \notin streams[x]
              \/ Queued(id) = 0 /\ id \in streams[<< r.prefix, "INFO" >>]

\* a DEBUG message has been dropped by a logger that is initialized with
\* debug disabled, and nothing is queued or delivered
C30_Witness ==
    /\ initialized_
    /\ ~enable_debug_
    /\ \E id \in DOMAIN logged :
         logged[id].level = DEBUG /\ logged[id].cause = "debug_off" /\ Nowhere(id)

\* no sink_it_ call of sink s is in progress
Quiet(s) == \A t \in Threads : tsink[t] = s => pc[t] = "idle"

\* C31 as stated: whenever no call of a built sink is in progress, its
\* counter current_size_ equals the size of the file it has open.
C31_CounterTracksFile ==
    \A s \in SinkIds :
        (built[s] = "ok" /\ file_helper_[s].fd /\ Quiet(s)) =>
            current_size_[s] = file_helper_size(s)

\* every rotation of sink s has built a path that held no file
NoSameSecondRotation(s) == \A k \in Rotations(s) : opens[s][k].created

\* the bytes on disk in the files of the stream of sink s
StreamTotal(s) == SumSizes(Candidates(s, fs), fs)

\* the larger of max_size and the largest message
Headroom(s) == IF max_size_[s] > LargestMsg THEN max_size_[s] ELSE LargestMsg

\* C32 as stated: for a sink none of whose rotations fell into the second of the
\* previous open, whenever no call is in progress the files of the stream
\* hold at most max_total_size + max(max_size, largest message) bytes.
C32_DiskUsageBound ==
    \A s \in SinkIds :
        (built[s] = "ok" /\ Quiet(s) /\ NoSameSecondRotation(s)) =>
            StreamTotal(s) <= max_total_size_[s] + Headroom(s)

\* the call of thread t carries a message larger than max_size
Oversized(t) == calls[cur[t]].size > max_size_[tsink[t]]

\* C33: a call whose message alone exceeds max_size never goes from the
\* check straight to the write; when it writes, it has rotated, the open file
\* is the one its rotation opened, and all bytes of the message are appended
\* to that file; the call ends as written.
C33_OversizedMessage ==
    [][ \A t \in Threads :
          /\ (pc[t] = "check" /\ Oversized(t)) => pc'[t] \in {"check", "lock"}
          /\ (pc[t] = "recheck" /\ Oversized(t)) => pc'[t] \in {"recheck", "close"}
          /\ (pc[t] = "write" /\ pc'[t] = "idle" /\ Oversized(t)) =>
               LET s == tsink[t]
                   id == cur[t]
                   f == file_helper_[s].filename
               IN  /\ calls[id].rotated
                   /\ file_helper_[s].fd
                   /\ opens[s][Len(opens[s])].by = id
                   /\ opens[s][Len(opens[s])].name = f
                   /\ f \in DOMAIN fs
                   /\ fs'[f].content = fs[f].content \o Bytes(id, calls[id].size)
                   /\ calls'[id].state = "written"
                   /\ calls'[id].dest = f
      ]_vars

\* a message larger than max_size that met an empty file has rotated and
\* lies whole in the file it was written to
C33_Witness ==
    \E id \in DOMAIN calls :
        /\ calls[id].size > max_size_[calls[id].sink]
        /\ calls[id].start_size = 0
        /\ calls[id].rotated
        /\ calls[id].state = "written"
        /\ calls[id].dest \in DOMAIN fs
        /\ OneBlock(fs[calls[id].dest].content, id, calls[id].size)

\* C34: the step in which the open of a rotation fails leaves the handle
\* closed and changes neither the counter, nor the alias, nor any file, nor
\* the time of the last check; from then on the handle of that sink stays
\* closed in every later step.
C34_FailedRotationState ==
    [][ /\ \A t \in Threads :
             (pc[t] = "open" /\ pc'[t] = "idle") =>
                 LET s == tsink[t] IN
                 /\ ~file_helper_[s].fd
                 /\ ~file_helper_'[s].fd
                 /\ "open" \in failed'[s]
                 /\ current_size_' = current_size_
                 /\ links' = links
                 /\ fs' = fs
                 /\ deleted' = deleted
                 /\ last_rotation_check_' = last_rotation_check_
                 /\ opens' = opens
        /\ \A s \in SinkIds :
             (built[s] = "ok" /\ "open" \in failed[s]) =>
                 /\ ~file_helper_[s].fd
                 /\ ~file_helper_'[s].fd
                 /\ \A t \in Threads : tsink[t] = s => pc'[t] \notin {"close", "open", "symlink"}
      ]_vars

\* the open of a rotation has failed, the alias still names the file that was
\* current before, the counter still holds its size, and a later call to the
\* sink has ended without a file to write to
C34_Witness ==
    \E id, later \in DOMAIN calls :
        /\ id < later
        /\ calls[id].error = "open"
        /\ calls[later].sink = calls[id].sink
        /\ calls[later].state \in {"threw", "dropped"}
        /\ calls[later].error = "none"
        /\ ~file_helper_[calls[id].sink].fd
        /\ AliasName \in DOMAIN links
        /\ links[AliasName] = calls[id].start_file
        /\ current_size_[calls[id].sink] = calls[id].start_size
        /\ calls[id].start_size > 0

\* the name starts with the log_type of sink s and a dot
OfStream(s, filename) == IsPrefix(log_type_[s] \o << "." >>, filename)

\* C35: the list a cleanup sorts and sums holds only files whose names
\* start with the sink's log_type and a dot, and every file a cleanup
\* deletes, on rotation or at construction, has such a name; with an INFO
\* and a WARNING sink on one base filename no cleanup deletes a file of the
\* other stream, in any interleaving.
C35_CleanupStaysInStream ==
    [][ /\ \A t \in Threads :
             /\ \A f \in Range(log_files[t]) : OfStream(tsink[t], f)
             /\ (pc[t] = "prune" /\ pc'[t] = "stamp") =>
                  \A f \in DOMAIN fs \ DOMAIN fs' :
                      /\ OfStream(tsink[t], f)
                      /\ f \in Range(log_files[t])
                      /\ \A s \in SinkIds \ {tsink[t]} : ~OfStream(s, f)
        /\ \A s \in SinkIds :
             (built[s] = "unbuilt" /\ built'[s] = "ok") =>
                  \A f \in DOMAIN fs \ DOMAIN fs' :
                      /\ OfStream(s, f)
                      /\ \A s2 \in SinkIds \ {s} : ~OfStream(s2, f)
      ]_vars

\* a cleanup of the INFO sink has deleted a file of its own stream while the
\* WARNING sink is built and its open file, which holds bytes, is on disk
C35_Witness ==
    /\ \E t \in Threads : tsink[t] = 1 /\ pc[t] = "stamp" /\ calls[cur[t]].cleaned
    /\ \E f \in deleted : OfStream(1, f)
    /\ built[2] = "ok"
    /\ file_helper_[2].filename \in DOMAIN fs
    /\ FileSize(fs, file_helper_[2].filename) > 0


\* the once_flag is consumed by an Initialize whose settings disable both the
\* console and the file output
Rejected == init_flag_ = "done" /\ ~enable_console_ /\ ~enable_file_

\* thread t runs the body of Initialize and stores settings with both outputs
\* disabled
RejectingStep(t) ==
    /\ lpc[t] = "body" /\ lpc'[t] = "return"
    /\ ~enable_console_' /\ ~enable_file_'

\* C36: an Initialize call with console and file output both disabled creates
\* no file, alias or registered logger and consumes the once_flag; from then
\* on the logger stays uninitialized, every Initialize call returns false,
\* nothing is created, registered, queued or delivered, and every Log call is
\* dropped as uninitialized.
C36_RejectedInitializeIsFinal ==
    [][ /\ \A t \in Threads :
             RejectingStep(t) =>
               /\ Rejected' /\ ~initialized_'
               /\ UNCHANGED << fs, links, registry, queue, streams >>
        /\ Rejected =>
             /\ Rejected' /\ ~initialized_' /\ registry' = NoLogger
             /\ UNCHANGED << fs, links, queue, streams, body_runs >>
             /\ \A r \in returns' \ returns : ~r.value
             /\ \A id \in DOMAIN logged' \ DOMAIN logged :
                  logged'[id].cause = "uninitialized" /\ Nowhere(id)'
      ]_vars

\* after a rejected Initialize one call has returned false, a later call has
\* passed call_once without running the body, and a Log call was dropped
C36_Witness ==
    /\ Rejected /\ shutdowns = 0 /\ body_runs = 1
    /\ [after_shutdown |-> FALSE, value |-> FALSE] \in returns
    /\ \E t \in Threads : lpc[t] = "return"
    /\ \E id \in DOMAIN logged : logged[id].cause = "uninitialized"
    /\ fs = << >> /\ links = << >> /\ registry = NoLogger

====
